---------------------------- MODULE Spec2Model ----------------------------
(***************************************************************************)
(* Geocoding data tests (krdenesh/Maps, geocodingweb/bin).                 *)
(*                                                                         *)
(* readers.py assembles GeoJSON-like feature records from local CSV files  *)
(* (ReaderLocalCSVs) or from Postgres tables (ReaderPostgres);             *)
(* data_test.py (the nose variant, class TestGeometries) and               *)
(* geocoding_data_tests.py (the interactive variant, class GeoCodingTest)  *)
(* run the spatial checks over the assembled records.                      *)
(*                                                                         *)
(* SpecReaders follows get_input_data and setUp from the rows of the CSV   *)
(* files or of the tables; SpecOverlap, SpecShapes and SpecContain follow  *)
(* one family of checks each, from feature sets the readers can yield.     *)
(*                                                                         *)
(* Geometry is modelled on a strip of unit cells: a polygon is the set of  *)
(* cells it covers (a non-contiguous set is a MultiPolygon), a point is    *)
(* the centre of one cell.  The shapely predicates are computed from the   *)
(* cell sets; a predicate evaluated on an invalid polygon may raise.       *)
(***************************************************************************)
EXTENDS Integers, Sequences, FiniteSets, TLC

VARIABLES
    variant,            \* "nose" (data_test.py) or "interactive" (geocoding_data_tests.py)
    test_data,          \* self.test_data: the records the reader yielded, in order
    id_indexed_record,  \* self.id_indexed_record: compound key -> record
    pc,                 \* position of the test instance
    check,              \* the test method that is running
    i,                  \* index of the record (or of `data`) the running loop is at
    polygon_shapes,     \* test_overlappingPolygons: the indexed polygons
    candidates,         \* keys of idx.intersection(...) still to visit for `data`
    features_invalid_shape,
    features_point_outside_polygon,
    features_with_overlapping_polygons,
    features_polygon_falls_within_parent,
    ids_with_topology_error,
    raised,             \* the exception that left the running method, or "none"
    runs,               \* finished runs of this feature set
    prev_overlapping,   \* what the previous run's test_overlappingPolygons reported
    data_type,          \* self.data_type: "csv" or "postgres"
    in_dir,             \* the rows of the CSV files of the directory, by class
    records_from_files, \* _get_class_generator: the rows read, by class
    cursor,             \* ReaderLocalCSVs._cursor: the class generators still chained
    database,           \* the rows of the production and the staging tables
    production_data_as_hash, \* _generate_output_iterable: the hash being merged into
    staging_hashes,     \* the staging hashes handed to _apply_staging so far
    heap,               \* the list objects the synonyms tables refer to
    files_in_dir,       \* os.listdir(in_dir): the names of the files of the directory
    opened,             \* the files _get_class_generator has opened
    staging_prefixes,   \* the pg_staging_prefixes option, as its elements between commas
    pg_tables           \* the tables of the Postgres database, by the prefix of their names

vars == <<variant, test_data, id_indexed_record, pc, check, i, polygon_shapes,
          candidates, features_invalid_shape, features_point_outside_polygon,
          features_with_overlapping_polygons,
          features_polygon_falls_within_parent, ids_with_topology_error,
          raised, runs, prev_overlapping, data_type, in_dir,
          records_from_files, cursor, database, production_data_as_hash,
          staging_hashes, heap, files_in_dir, opened, staging_prefixes,
          pg_tables>>

\* What the readers read from
SourceVars == <<files_in_dir, opened, staging_prefixes, pg_tables>>

\* The state of the staging merge
MergeVars == <<production_data_as_hash, staging_hashes, heap>>

\* The reader's side of the state
ReaderVars ==
    <<data_type, in_dir, records_from_files, cursor, database, MergeVars, SourceVars>>

-----------------------------------------------------------------------------
(* Bounds of the model *)

MaxRecords == 2
RunNumbers == {1, 2}

IdValues == {1, 2}
Cells == {0, 1, 2, 3}

-----------------------------------------------------------------------------
(* Python values that are an int, None or a str *)

PyInt(n) == [t |-> "int", n |-> n, s |-> ""]
PyNone == [t |-> "NoneType", n |-> 0, s |-> ""]
PyStr(s) == [t |-> "str", n |-> 0, s |-> s]
PyList(items) == [t |-> "list", n |-> 0, s |-> "", items |-> items]

\* str(v)
Str(v) ==
    CASE v.t = "int" -> ToString(v.n)
      [] v.t = "NoneType" -> "None"
      [] OTHER -> v.s

\* Mutant: every class passes for a non-country
IsNotZeroAlways(v) == v.t \in {"int", "NoneType", "str"}

\* `v is not 0`
IsNotZero(v) == ~(v.t = "int" /\ v.n = 0)

-----------------------------------------------------------------------------
(* Geometries and the geometry engine *)

SetMin(S) == CHOOSE x \in S : \A y \in S : x <= y
SetMax(S) == CHOOSE x \in S : \A y \in S : y <= x

Contiguous(S) == \A c \in Cells : (SetMin(S) <= c /\ c <= SetMax(S)) => c \in S

Point(c) == [type |-> "Point", cells |-> {c}, valid |-> TRUE]
Polygon(S, v) ==
    [type |-> IF Contiguous(S) THEN "Polygon" ELSE "MultiPolygon",
     cells |-> S, valid |-> v]

IsPolygonType(geom) == geom.type \in {"MultiPolygon", "Polygon"}

\* polygon.is_valid
IsValid(g) == g.valid

\* shape(geom).bounds: cell c covers [c, c+1]
Bounds(g) == <<SetMin(g.cells), SetMax(g.cells) + 1>>

\* rtree: two boxes intersect when they share a point, a border included
BoundsIntersect(a, b) == a[1] <= b[2] /\ b[1] <= a[2]

\* a.within(b)
Within(a, b) == a.cells \subseteq b.cells

\* a.contains(b)
Contains(a, b) == b.cells \subseteq a.cells

\* a.overlaps(b): the interiors meet and neither covers the other
Overlaps(a, b) ==
    /\ a.cells \cap b.cells # {}
    /\ ~(a.cells \subseteq b.cells)
    /\ ~(b.cells \subseteq a.cells)

\* The outcomes of evaluating a predicate: it may raise on an invalid polygon
MayRaise(a, b) == IF a.valid /\ b.valid THEN {FALSE} ELSE {FALSE, TRUE}

\* Mutant: an evaluation that raised counts like one that returned true
ReturnedTrueOrRaised(exc, value) == exc \/ value

\* `try: if <predicate>:` -- the body of the `if` runs when the evaluation did
\* not raise and its value is true
ReturnedTrue(exc, value) == ~exc /\ value

-----------------------------------------------------------------------------
(* Feature records *)

Feature(id, map_code, class, parent_id, has_geometry, geometries) ==
    [properties |-> [id |-> id, map_code |-> map_code, class |-> class,
                     parent_id |-> parent_id, synonyms |-> PyNone, names |-> {}],
     has_geometry |-> has_geometry,
     geometries |-> geometries]

\* _get_comp_primary_key(record)
CompPrimaryKey(record) ==
    ToString(record.properties.id) \o "_" \o ToString(record.properties.map_code)

\* None, where a shape is looked for
NoShape == [type |-> "None", cells |-> {}, valid |-> TRUE]

\* _get_Polygon(record): decided by the first geometry of the list
GetPolygon(record) ==
    IF record.has_geometry
    THEN IF Len(record.geometries) = 0
         THEN NoShape
         ELSE IF IsPolygonType(record.geometries[1])
              THEN record.geometries[1]
              ELSE NoShape
    ELSE NoShape

\* The loops `for geom in geoms: if geom['type'] == ...: x = shape(geom)`:
\* the last geometry of the kind, or None
IsPointType(geom) == geom.type = "Point"

PtGeom(record) ==
    LET at == {j \in 1..Len(record.geometries) : IsPointType(record.geometries[j])}
    IN  IF at = {} THEN NoShape ELSE record.geometries[SetMax(at)]

PolyGeom(record) ==
    LET at == {j \in 1..Len(record.geometries) : IsPolygonType(record.geometries[j])}
    IN  IF at = {} THEN NoShape ELSE record.geometries[SetMax(at)]

-----------------------------------------------------------------------------
(* setUp / GeoCodingTest.__init__: the id index *)

KeysOf(data) == {CompPrimaryKey(data[j]) : j \in 1..Len(data)}

FirstIndexOf(key, data) ==
    SetMin({j \in 1..Len(data) : CompPrimaryKey(data[j]) = key})

\* the record kept for a key is the first one yielded with it
IdIndex(data) == [k \in KeysOf(data) |-> data[FirstIndexOf(k, data)]]

DuplicateAt(data) ==
    {k \in 1..Len(data) :
        \E j \in 1..(k - 1) : CompPrimaryKey(data[j]) = CompPrimaryKey(data[k])}

HasKey(dict, key) == key \in DOMAIN dict

Locals == <<i, polygon_shapes, candidates, features_invalid_shape,
            features_point_outside_polygon,
            features_with_overlapping_polygons,
            features_polygon_falls_within_parent, ids_with_topology_error>>

FreshLocals ==
    /\ i' = 1
    /\ polygon_shapes' = <<>>
    /\ candidates' = {}
    /\ features_invalid_shape' = <<>>
    /\ features_point_outside_polygon' = <<>>
    /\ features_with_overlapping_polygons' = <<>>
    /\ features_polygon_falls_within_parent' = <<>>
    /\ ids_with_topology_error' = <<>>

\* nose: assertFalse(True) at the first recurring key aborts setUp, and the test
\* method is not run; interactive: the recurrence is printed
SetUp ==
    /\ pc = "setUp"
    /\ LET dups == DuplicateAt(test_data)
       IN  IF variant = "nose" /\ dups # {}
           THEN /\ id_indexed_record' =
                      IdIndex(SubSeq(test_data, 1, SetMin(dups) - 1))
                /\ raised' = "AssertionError"
                /\ pc' = "setUpFailed"
           ELSE /\ id_indexed_record' = IdIndex(test_data)
                /\ raised' = "none"
                /\ pc' = "ready"
    /\ UNCHANGED <<ReaderVars, variant, test_data, check, Locals, runs, prev_overlapping>>

NoseChecks == {"test_invalidShape", "test_PointInPolygonGeom",
               "test_overlappingPolygons", "test_polygonFallsWithinParent"}
InteractiveChecks == {"test_invalidShape", "test_PointInPolygon",
                      "test_overlappingPolygons"}

\* the runner (nose, or a request handler of app.py) calls one test method
StartCheck(c) ==
    /\ pc = "ready"
    /\ c \in (IF variant = "nose" THEN NoseChecks ELSE InteractiveChecks)
    /\ check' = c
    /\ pc' = "running"
    /\ FreshLocals
    /\ UNCHANGED <<ReaderVars, variant, test_data, id_indexed_record, raised, runs,
                   prev_overlapping>>

\* dict[key] = value on a dict kept as a sequence of entries
DictSet(dict, key, value) ==
    IF \E j \in 1..Len(dict) : dict[j].key = key
    THEN [j \in 1..Len(dict) |->
            IF dict[j].key = key THEN [key |-> key, value |-> value] ELSE dict[j]]
    ELSE Append(dict, [key |-> key, value |-> value])

DictKeys(dict) == {dict[j].key : j \in 1..Len(dict)}

\* A nose test method ends with assertEqual(len(report), 0, msg=... report)
Verdict(report) ==
    IF variant = "nose" /\ Len(report) # 0 THEN "AssertionError" ELSE "none"

-----------------------------------------------------------------------------
(* test_invalidShape *)

\* One iteration of `for record in self.test_data`.  The interactive variant
\* reads record['geometry']['geometries'] first and files the record under its
\* id; the nose variant appends the compound key.
InvalidShapeStep ==
    /\ pc = "running"
    /\ check = "test_invalidShape"
    /\ i <= Len(test_data)
    /\ LET record == test_data[i]
           polygon == GetPolygon(record)
           invalid == polygon # NoShape /\ ~IsValid(polygon)
       IN  IF variant = "interactive" /\ ~record.has_geometry
           THEN /\ raised' = "KeyError"
                /\ pc' = "raised"
                /\ UNCHANGED <<i, features_invalid_shape>>
           ELSE /\ features_invalid_shape' =
                      IF ~invalid THEN features_invalid_shape
                      ELSE IF variant = "nose"
                      THEN Append(features_invalid_shape, CompPrimaryKey(record))
                      ELSE IF record.properties.id \in DictKeys(features_invalid_shape)
                      THEN features_invalid_shape
                      ELSE DictSet(features_invalid_shape, record.properties.id, record)
                /\ i' = i + 1
                /\ UNCHANGED <<raised, pc>>
    /\ UNCHANGED <<ReaderVars, variant, test_data, id_indexed_record, check, polygon_shapes,
                   candidates, features_point_outside_polygon,
                   features_with_overlapping_polygons,
                   features_polygon_falls_within_parent, ids_with_topology_error,
                   runs, prev_overlapping>>

InvalidShapeFinish ==
    /\ pc = "running"
    /\ check = "test_invalidShape"
    /\ i > Len(test_data)
    /\ raised' = Verdict(features_invalid_shape)
    /\ pc' = "done"
    /\ UNCHANGED <<ReaderVars, variant, test_data, id_indexed_record, check, Locals, runs,
                   prev_overlapping>>

-----------------------------------------------------------------------------
(* test_PointInPolygonGeom (nose) / test_PointInPolygon (interactive) *)

PointInPolygonChecks == {"test_PointInPolygonGeom", "test_PointInPolygon"}

\* One iteration: record['geometry']['geometries'] is read unguarded; an
\* exception of within() is swallowed by `continue`.
PointInPolygonStep ==
    /\ pc = "running"
    /\ check \in PointInPolygonChecks
    /\ i <= Len(test_data)
    /\ LET record == test_data[i]
           pt_geom == PtGeom(record)
           poly_geom == PolyGeom(record)
           composite_key == CompPrimaryKey(record)
       IN  IF ~record.has_geometry
           THEN /\ raised' = "KeyError"
                /\ pc' = "raised"
                /\ UNCHANGED <<i, features_point_outside_polygon>>
           ELSE /\ \E exc \in (IF pt_geom # NoShape /\ poly_geom # NoShape
                               THEN MayRaise(pt_geom, poly_geom) ELSE {FALSE}) :
                      features_point_outside_polygon' =
                        IF pt_geom # NoShape /\ poly_geom # NoShape /\ ~exc
                           /\ ~Within(pt_geom, poly_geom)
                        THEN IF variant = "nose"
                             THEN Append(features_point_outside_polygon, composite_key)
                             ELSE DictSet(features_point_outside_polygon,
                                          composite_key, record.geometries)
                        ELSE features_point_outside_polygon
                /\ i' = i + 1
                /\ UNCHANGED <<raised, pc>>
    /\ UNCHANGED <<ReaderVars, variant, test_data, id_indexed_record, check, polygon_shapes,
                   candidates, features_invalid_shape,
                   features_with_overlapping_polygons,
                   features_polygon_falls_within_parent, ids_with_topology_error,
                   runs, prev_overlapping>>

PointInPolygonFinish ==
    /\ pc = "running"
    /\ check \in PointInPolygonChecks
    /\ i > Len(test_data)
    /\ raised' = Verdict(features_point_outside_polygon)
    /\ pc' = "done"
    /\ UNCHANGED <<ReaderVars, variant, test_data, id_indexed_record, check, Locals, runs,
                   prev_overlapping>>

-----------------------------------------------------------------------------
(* test_polygonFallsWithinParent (nose only) *)

\* str(parent_id) + "_" + str(map_code)
ParentIndexKey(record) ==
    Str(record.properties.parent_id) \o "_" \o ToString(record.properties.map_code)

\* The child is examined when it has a polygon and is not a country
ChildExamined(record) ==
    GetPolygon(record) # NoShape /\ IsNotZero(record.properties.class)

\* The parent polygon the child is compared with, or None
ParentPolygon(record) ==
    IF HasKey(id_indexed_record, ParentIndexKey(record))
    THEN GetPolygon(id_indexed_record[ParentIndexKey(record)])
    ELSE NoShape

TopologyError(key, error_string) ==
    [composite_key |-> key, error_string |-> error_string]

FallsWithinParentStep ==
    /\ pc = "running"
    /\ check = "test_polygonFallsWithinParent"
    /\ i <= Len(test_data)
    /\ LET record == test_data[i]
           child_polygon == GetPolygon(record)
           parent_polygon == ParentPolygon(record)
           evaluated == ChildExamined(record) /\ parent_polygon # NoShape
       IN  \E exc \in (IF evaluated THEN MayRaise(parent_polygon, child_polygon)
                       ELSE {FALSE}) :
             /\ features_polygon_falls_within_parent' =
                   IF evaluated
                      /\ ReturnedTrue(exc, ~Contains(parent_polygon, child_polygon))
                   THEN Append(features_polygon_falls_within_parent,
                               CompPrimaryKey(record))
                   ELSE features_polygon_falls_within_parent
             /\ ids_with_topology_error' =
                   IF evaluated /\ exc
                   THEN Append(ids_with_topology_error,
                               TopologyError(CompPrimaryKey(record), "TopologicalError"))
                   ELSE ids_with_topology_error
    /\ i' = i + 1
    /\ UNCHANGED <<ReaderVars, variant, test_data, id_indexed_record, pc, check,
                   polygon_shapes, candidates, features_invalid_shape,
                   features_point_outside_polygon,
                   features_with_overlapping_polygons, raised, runs,
                   prev_overlapping>>

FallsWithinParentFinish ==
    /\ pc = "running"
    /\ check = "test_polygonFallsWithinParent"
    /\ i > Len(test_data)
    /\ raised' = Verdict(features_polygon_falls_within_parent)
    /\ pc' = "done"
    /\ UNCHANGED <<ReaderVars, variant, test_data, id_indexed_record, check, Locals, runs,
                   prev_overlapping>>

-----------------------------------------------------------------------------
(* test_overlappingPolygons *)

OverlapCheck == "test_overlappingPolygons"

\* str(entry['id']) + '_' + str(entry['map_code'])
EntryKey(entry) == ToString(entry.id) \o "_" \o ToString(entry.map_code)

RECURSIVE PolygonEntries(_, _)
\* `for geom in geoms`, from the j-th geometry on: one entry per polygon
PolygonEntries(record, j) ==
    IF j > Len(record.geometries)
    THEN <<>>
    ELSE (IF IsPolygonType(record.geometries[j])
          THEN <<[id |-> record.properties.id,
                  class |-> record.properties.class,
                  map_code |-> record.properties.map_code,
                  polygon |-> record.geometries[j],
                  geoms |-> record.geometries]>>
          ELSE <<>>) \o PolygonEntries(record, j + 1)

RECURSIVE IndexedPolygons(_, _)
\* `for record in self.test_data`, from the k-th record on
IndexedPolygons(data, k) ==
    IF k > Len(data)
    THEN <<>>
    ELSE (IF data[k].has_geometry THEN PolygonEntries(data[k], 1) ELSE <<>>)
         \o IndexedPolygons(data, k + 1)

\* The first loop: polygon_shapes, and the rtree index of the bounds.  The
\* index key of an entry is its position in polygon_shapes.
OverlapBuildIndex ==
    /\ pc = "running"
    /\ check = OverlapCheck
    /\ polygon_shapes' = IndexedPolygons(test_data, 1)
    /\ i' = 1
    /\ pc' = "query"
    /\ UNCHANGED <<ReaderVars, variant, test_data, id_indexed_record, check, candidates,
                   features_invalid_shape, features_point_outside_polygon,
                   features_with_overlapping_polygons,
                   features_polygon_falls_within_parent, ids_with_topology_error,
                   raised, runs, prev_overlapping>>

\* idx.intersection(data['polygon'].bounds)
IdxIntersection(shapes, data) ==
    {key \in 1..Len(shapes) :
        BoundsIntersect(Bounds(shapes[key].polygon), Bounds(data.polygon))}

OverlapQuery ==
    /\ pc = "query"
    /\ i <= Len(polygon_shapes)
    /\ candidates' = IdxIntersection(polygon_shapes, polygon_shapes[i])
    /\ pc' = "pairs"
    /\ UNCHANGED <<ReaderVars, variant, test_data, id_indexed_record, check, i,
                   polygon_shapes, features_invalid_shape,
                   features_point_outside_polygon,
                   features_with_overlapping_polygons,
                   features_polygon_falls_within_parent, ids_with_topology_error,
                   raised, runs, prev_overlapping>>

\* Mutant: the class of the two features is not compared
CandidatePairAnyClass(data, other) ==
    /\ data.map_code = other.map_code
    /\ other.polygon # data.polygon

\* The `if` that admits a pair to the overlap predicate
CandidatePair(data, other) ==
    /\ data.map_code = other.map_code
    /\ data.class = other.class
    /\ other.polygon # data.polygon

\* Mutant: the two keys are joined the other way round
PairStringSwapped(feature_a, feature_b) == feature_b \o ";" \o feature_a

PairString(feature_a, feature_b) == feature_a \o ";" \o feature_b

\* Mutant: the membership test looks for the string about to be appended
NotYetReportedSameDirection(report, feature_1, feature_2) ==
    \A j \in 1..Len(report) : report[j] # feature_1 \o ";" \o feature_2

\* `feature_2 + ";" + feature_1 not in features_with_overlapping_polygons`
NotYetReported(report, feature_1, feature_2) ==
    \A j \in 1..Len(report) : report[j] # PairString(feature_2, feature_1)

\* Mutant: the statements after the first assignment are reached, and
\* report[pair]["geometries"].append(data['geoms']) grows the geometries list
\* of the record behind polygon_shapes[key]
GeomsAppended(records, other, data) ==
    [k \in 1..Len(records) |->
        IF CompPrimaryKey(records[k]) = EntryKey(other)
           /\ records[k].geometries = other.geoms
        THEN [records[k] EXCEPT
                !.geometries = Append(@, [type |-> "list", geometries |-> data.geoms])]
        ELSE records[k]]

\* The records after the try block of the interactive variant was left by the
\* KeyError of its first assignment: the assignment of polygon_shapes[key]
\* ['geoms'] to the report and the append to it are not executed
GeomsAfterKeyError(records, other, data) == records

\* The body of `for key in idx.intersection(...)` for one key, which the index
\* hands out in no particular order.  In the interactive variant the report is a
\* dict and the first assignment, report[pair]["type"] = ..., raises KeyError
\* inside the try, so the pair lands in ids_with_topology_error.
OverlapPair ==
    /\ pc = "pairs"
    /\ \E key \in candidates :
         LET data == polygon_shapes[i]
             other == polygon_shapes[key]
             candidate == CandidatePair(data, other)
             feature_1 == EntryKey(other)
             feature_2 == EntryKey(data)
         IN  /\ candidates' = candidates \ {key}
             /\ \E exc \in (IF candidate THEN MayRaise(other.polygon, data.polygon)
                            ELSE {FALSE}) :
                  LET fresh == /\ candidate
                               /\ ReturnedTrue(exc, Overlaps(other.polygon, data.polygon))
                               /\ IF variant = "nose"
                                  THEN NotYetReported(features_with_overlapping_polygons,
                                                      feature_1, feature_2)
                                  ELSE PairString(feature_2, feature_1) \notin
                                         DictKeys(features_with_overlapping_polygons)
                  IN  /\ features_with_overlapping_polygons' =
                            IF fresh /\ variant = "nose"
                            THEN Append(features_with_overlapping_polygons,
                                        PairString(feature_1, feature_2))
                            ELSE features_with_overlapping_polygons
                      /\ ids_with_topology_error' =
                            IF candidate /\ exc
                            THEN Append(ids_with_topology_error,
                                        TopologyError(PairString(feature_1, feature_2),
                                                      "TopologicalError"))
                            ELSE IF fresh /\ variant = "interactive"
                            THEN Append(ids_with_topology_error,
                                        TopologyError(PairString(feature_1, feature_2),
                                                      "KeyError"))
                            ELSE ids_with_topology_error
                      /\ test_data' =
                            IF fresh /\ variant = "interactive"
                            THEN GeomsAfterKeyError(test_data, other, data)
                            ELSE test_data
    /\ UNCHANGED <<ReaderVars, variant, id_indexed_record, pc, check, i,
                   polygon_shapes, features_invalid_shape,
                   features_point_outside_polygon,
                   features_polygon_falls_within_parent, raised, runs,
                   prev_overlapping>>

\* idx.intersection(...) is exhausted: the next `data`
OverlapNextData ==
    /\ pc = "pairs"
    /\ candidates = {}
    /\ i' = i + 1
    /\ pc' = "query"
    /\ UNCHANGED <<ReaderVars, variant, test_data, id_indexed_record, check, polygon_shapes,
                   candidates, features_invalid_shape,
                   features_point_outside_polygon,
                   features_with_overlapping_polygons,
                   features_polygon_falls_within_parent, ids_with_topology_error,
                   raised, runs, prev_overlapping>>

OverlapFinish ==
    /\ pc = "query"
    /\ i > Len(polygon_shapes)
    /\ raised' = Verdict(features_with_overlapping_polygons)
    /\ pc' = "done"
    /\ UNCHANGED <<ReaderVars, variant, test_data, id_indexed_record, check, Locals, runs,
                   prev_overlapping>>

-----------------------------------------------------------------------------
(* A further run over the same feature set *)

\* What is kept of the previous run: the set of its report strings, and whether
\* a predicate raised in it
Range(seq) == {seq[j] : j \in 1..Len(seq)}

NoPrevious == [have |-> FALSE, report |-> {}, errors |-> FALSE]

Reorderings(seq) ==
    {[j \in 1..Len(seq) |-> seq[p[j]]] :
        p \in {q \in [1..Len(seq) -> 1..Len(seq)] :
                 \A a, b \in 1..Len(seq) : a # b => q[a] # q[b]}}

\* Every test method gets an instance of its own (nose), and every request
\* builds a new GeoCodingTest: the reader is iterated again, and the order in
\* which its dicts hand out the records is arbitrary.
NewRun ==
    /\ pc \in {"done", "raised", "setUpFailed"}
    /\ runs + 1 \in RunNumbers
    /\ runs' = runs + 1
    /\ test_data' \in Reorderings(test_data)
    /\ prev_overlapping' =
          IF pc = "done" /\ check = OverlapCheck
          THEN [have |-> TRUE,
                report |-> Range(features_with_overlapping_polygons),
                errors |-> ids_with_topology_error # <<>>]
          ELSE prev_overlapping
    /\ id_indexed_record' = <<>>
    /\ check' = "none"
    /\ raised' = "none"
    /\ pc' = "setUp"
    /\ FreshLocals
    /\ UNCHANGED <<ReaderVars, variant>>

-----------------------------------------------------------------------------
(* Initial states: the feature sets the checks are run on *)

SeqsUpTo(S, n) == UNION {[1..k -> S] : k \in 0..n}

\* get_input_data: the two readers
DataTypes == {"csv", "postgres"}

InitOn(pool, variants, types) ==
    /\ variant \in variants
    /\ test_data \in SeqsUpTo(pool, MaxRecords)
    /\ id_indexed_record = <<>>
    /\ pc = "setUp"
    /\ check = "none"
    /\ i = 1
    /\ polygon_shapes = <<>>
    /\ candidates = {}
    /\ features_invalid_shape = <<>>
    /\ features_point_outside_polygon = <<>>
    /\ features_with_overlapping_polygons = <<>>
    /\ features_polygon_falls_within_parent = <<>>
    /\ ids_with_topology_error = <<>>
    /\ raised = "none"
    /\ runs = 1
    /\ prev_overlapping = NoPrevious
    /\ data_type \in types
    /\ in_dir = <<>>
    /\ records_from_files = <<>>
    /\ cursor = <<>>
    /\ database = <<>>
    /\ production_data_as_hash = <<>>
    /\ staging_hashes = <<>>
    /\ heap = <<>>
    /\ files_in_dir = {}
    /\ opened = {}
    /\ staging_prefixes = <<>>
    /\ pg_tables = <<>>

Variants == {"nose", "interactive"}

\* Polygons of the overlap runs: {0,1} and {1,2} overlap, {1} lies inside both,
\* {3} touches {1,2} on its border and is apart from {0,1}
OverlapPolygons ==
    {Polygon({0, 1}, TRUE), Polygon({1, 2}, TRUE), Polygon({1}, TRUE),
     Polygon({3}, TRUE), Polygon({1, 2}, FALSE)}

\* <<class, map_code>> of the features: a base layer and, for a polygon that
\* overlaps the base layer's, one layer of another map_code and one of another class
BaseLayer == <<1, 0>>
OtherLayers == {<<1, 1>>, <<2, 0>>}

\* Features as ReaderLocalCSVs yields them: no 'geometry' without a local row,
\* else the polygon followed by the point
CsvFeature(id, layer, g) ==
    Feature(id, layer[2], PyInt(layer[1]), PyNone, TRUE,
            <<g, Point(SetMin(g.cells))>>)

OverlapPool ==
    {CsvFeature(id, BaseLayer, g) : id \in IdValues, g \in OverlapPolygons}
    \cup {CsvFeature(SetMax(IdValues), l, Polygon({1, 2}, TRUE)) : l \in OtherLayers}
    \cup {Feature(SetMin(IdValues), BaseLayer[2], PyInt(BaseLayer[1]), PyNone,
                  FALSE, <<>>)}

InitOverlap == InitOn(OverlapPool, Variants, {"csv"})

NextOverlap ==
    \/ SetUp
    \/ StartCheck(OverlapCheck)
    \/ OverlapBuildIndex
    \/ OverlapQuery
    \/ OverlapPair
    \/ OverlapNextData
    \/ OverlapFinish
    \/ NewRun

SpecOverlap == InitOverlap /\ [][NextOverlap]_vars

-----------------------------------------------------------------------------
(* Properties of test_overlappingPolygons *)

OverlapDone == pc = "done" /\ check = OverlapCheck

\* Two indexed polygons of the same class and map_code overlap
OverlappingPair(x, y) ==
    /\ x.class = y.class
    /\ x.map_code = y.map_code
    /\ Overlaps(x.polygon, y.polygon)

\* The places of the report that hold the pair in either direction
PairEntries(report, x, y) ==
    {j \in 1..Len(report) :
        \/ report[j] = EntryKey(x) \o ";" \o EntryKey(y)
        \/ report[j] = EntryKey(y) \o ";" \o EntryKey(x)}

\* C2: when the nose overlap check has finished, an overlapping pair of equal
\* class and map_code has at most one entry in the report, whatever the order
\* of the records ("A;B" or "B;A", never both, never twice), and exactly one
\* when the predicate could be evaluated on it (both polygons valid).
C2_PairReportedOnce ==
    (OverlapDone /\ variant = "nose") =>
        \A a, b \in 1..Len(polygon_shapes) :
            (a < b /\ OverlappingPair(polygon_shapes[a], polygon_shapes[b])) =>
                LET n == Cardinality(PairEntries(features_with_overlapping_polygons,
                                                 polygon_shapes[a], polygon_shapes[b]))
                IN  /\ n <= 1
                    /\ (polygon_shapes[a].polygon.valid /\ polygon_shapes[b].polygon.valid)
                         => n = 1

C2_Witness ==
    /\ OverlapDone
    /\ variant = "nose"
    /\ Len(features_with_overlapping_polygons) = 1
    /\ \E a, b \in 1..Len(polygon_shapes) :
         /\ a < b
         /\ OverlappingPair(polygon_shapes[a], polygon_shapes[b])
         /\ polygon_shapes[a].polygon.valid
         /\ polygon_shapes[b].polygon.valid

\* The strings a report holds: the entries of the nose list, the keys of the
\* interactive dict
ReportStrings ==
    IF variant = "nose"
    THEN Range(features_with_overlapping_polygons)
    ELSE DictKeys(features_with_overlapping_polygons)

\* C3: at every moment of the overlap check, in both variants, every report
\* entry names two indexed features of the same class and the same map_code
\* whose polygons are not identical and for which overlaps() is true; so a pair
\* that only touches, and a feature that overlaps nothing, is in no entry.
C3_OnlyOverlappingPairsReported ==
    (check = OverlapCheck) =>
        \A s \in ReportStrings :
            /\ \E a, b \in 1..Len(polygon_shapes) :
                 s = EntryKey(polygon_shapes[a]) \o ";" \o EntryKey(polygon_shapes[b])
            /\ \A a, b \in 1..Len(polygon_shapes) :
                 (s = EntryKey(polygon_shapes[a]) \o ";" \o EntryKey(polygon_shapes[b])) =>
                    /\ polygon_shapes[a].class = polygon_shapes[b].class
                    /\ polygon_shapes[a].map_code = polygon_shapes[b].map_code
                    /\ polygon_shapes[a].polygon # polygon_shapes[b].polygon
                    /\ Overlaps(polygon_shapes[a].polygon, polygon_shapes[b].polygon)

\* A finished nose run that reported a pair although the feature set also holds
\* polygons the index pairs up without their being reported
C3_Witness ==
    /\ OverlapDone
    /\ variant = "nose"
    /\ runs = 2
    /\ features_with_overlapping_polygons # <<>>
    /\ prev_overlapping.have

\* C4 as stated: a run of the nose overlap check over the same feature set in
\* another order gives the same set of report strings (no predicate raising in
\* either run).
C4_SameStringsInAnyOrder ==
    (OverlapDone /\ variant = "nose" /\ prev_overlapping.have
        /\ ~prev_overlapping.errors /\ ids_with_topology_error = <<>>) =>
        Range(features_with_overlapping_polygons) = prev_overlapping.report

\* C4 as amended: when no predicate raises, every report string of the nose
\* overlap check is "later;earlier": the key of the polygon indexed later, then
\* the key of the one indexed earlier; and two such runs over the same feature
\* set in different orders report the same unordered pairs.
C4_SamePairsLaterFirst ==
    (OverlapDone /\ variant = "nose" /\ ids_with_topology_error = <<>>) =>
        /\ \A j \in 1..Len(features_with_overlapping_polygons) :
             \E a, b \in 1..Len(polygon_shapes) :
                /\ a > b
                /\ features_with_overlapping_polygons[j] =
                     EntryKey(polygon_shapes[a]) \o ";" \o EntryKey(polygon_shapes[b])
        /\ (prev_overlapping.have /\ ~prev_overlapping.errors) =>
             \A a, b \in 1..Len(polygon_shapes) :
                LET ab == EntryKey(polygon_shapes[a]) \o ";" \o EntryKey(polygon_shapes[b])
                    ba == EntryKey(polygon_shapes[b]) \o ";" \o EntryKey(polygon_shapes[a])
                    now == Range(features_with_overlapping_polygons)
                IN  (ab \in now \/ ba \in now)
                      <=> (ab \in prev_overlapping.report \/ ba \in prev_overlapping.report)

\* A second run whose report string is the first run's with the keys swapped
C4_Witness ==
    /\ OverlapDone
    /\ variant = "nose"
    /\ prev_overlapping.have
    /\ ~prev_overlapping.errors
    /\ ids_with_topology_error = <<>>
    /\ features_with_overlapping_polygons # <<>>
    /\ Range(features_with_overlapping_polygons) # prev_overlapping.report

\* C5: when the interactive overlap check has finished, every overlapping pair
\* of equal class and map_code with valid polygons has a report entry under
\* its pair key, a GeometryCollection holding the geometries of both features,
\* and is not in the topology-error list.
C5_InteractivePairReported ==
    (OverlapDone /\ variant = "interactive") =>
        \A a, b \in 1..Len(polygon_shapes) :
            (/\ a < b
             /\ OverlappingPair(polygon_shapes[a], polygon_shapes[b])
             /\ polygon_shapes[a].polygon.valid
             /\ polygon_shapes[b].polygon.valid) =>
                LET ab == EntryKey(polygon_shapes[a]) \o ";" \o EntryKey(polygon_shapes[b])
                    ba == EntryKey(polygon_shapes[b]) \o ";" \o EntryKey(polygon_shapes[a])
                IN  /\ \E j \in 1..Len(features_with_overlapping_polygons) :
                         /\ features_with_overlapping_polygons[j].key \in {ab, ba}
                         /\ features_with_overlapping_polygons[j].value.type =
                               "GeometryCollection"
                         /\ \A g \in Range(polygon_shapes[a].geoms)
                                  \cup Range(polygon_shapes[b].geoms) :
                               g \in Range(features_with_overlapping_polygons[j].value.geometries)
                    /\ \A j \in 1..Len(ids_with_topology_error) :
                         ids_with_topology_error[j].composite_key \notin {ab, ba}

-----------------------------------------------------------------------------
(* The validity and point-in-polygon runs *)

ShapeKeys == {<<1, 0>>, <<2, 0>>, <<1, 1>>}

ShapePolygons == {Polygon({0, 1}, TRUE), Polygon({0, 1}, FALSE)}
ShapePoints == {Point(0), Point(2)}

\* The 'geometry' a reader attaches: none at all (a CSV feature without a local
\* row), an empty list (a Postgres feature without point and polygon rows), the
\* point alone, the polygon then the point (CSV, Postgres), or the point then
\* the polygon (Postgres, when the points table is assembled first)
ShapeGeometries ==
    {<<FALSE, <<>>>>, <<TRUE, <<>>>>, <<TRUE, <<Point(0)>>>>}
    \cup {<<TRUE, <<g, p>>>> : g \in ShapePolygons, p \in ShapePoints}
    \cup {<<TRUE, <<p, g>>>> : g \in ShapePolygons, p \in ShapePoints}

ShapePool ==
    {Feature(k[1], k[2], PyInt(1), PyNone, gm[1], gm[2]) :
        k \in ShapeKeys, gm \in ShapeGeometries}

ShapeChecks == {"test_invalidShape", "test_PointInPolygonGeom", "test_PointInPolygon"}

InitShapes == InitOn(ShapePool, Variants, DataTypes)

NextShapes ==
    \/ SetUp
    \/ \E c \in ShapeChecks : StartCheck(c)
    \/ InvalidShapeStep
    \/ InvalidShapeFinish
    \/ PointInPolygonStep
    \/ PointInPolygonFinish

SpecShapes == InitShapes /\ [][NextShapes]_vars

\* C6: when the nose validity check has finished, a feature's compound key is
\* in features_invalid_shape exactly when its geometries list holds a polygon,
\* at whatever position, and that polygon is not valid.
C6_InvalidPolygonListed ==
    (pc = "done" /\ check = "test_invalidShape" /\ variant = "nose") =>
        \A j \in 1..Len(test_data) :
            (CompPrimaryKey(test_data[j]) \in Range(features_invalid_shape))
              <=> (/\ test_data[j].has_geometry
                   /\ PolyGeom(test_data[j]) # NoShape
                   /\ ~IsValid(PolyGeom(test_data[j])))

\* Some record with this key carries a point and a polygon, the polygon is
\* valid or not as asked, and the point is not within the polygon
PointOutside(key, must_be_valid) ==
    \E j \in 1..Len(test_data) :
        /\ CompPrimaryKey(test_data[j]) = key
        /\ test_data[j].has_geometry
        /\ PtGeom(test_data[j]) # NoShape
        /\ PolyGeom(test_data[j]) # NoShape
        /\ must_be_valid => IsValid(PolyGeom(test_data[j]))
        /\ ~Within(PtGeom(test_data[j]), PolyGeom(test_data[j]))

PointReportKeys ==
    IF variant = "nose"
    THEN Range(features_point_outside_polygon)
    ELSE DictKeys(features_point_outside_polygon)

\* C7: the point-in-polygon check goes through every feature and finishes; its
\* report then holds a key exactly when a feature of that key carries a point
\* and a polygon and within() is false for them (a feature on which within()
\* raised is left out, and nothing is recorded for it); features missing the
\* point or the polygon are skipped.
C7_PointOutsideReported ==
    (check \in PointInPolygonChecks) =>
        /\ pc # "raised"
        /\ ids_with_topology_error = <<>>
        /\ \A key \in PointReportKeys : PointOutside(key, FALSE)
        /\ (pc = "done") =>
              \A key \in KeysOf(test_data) :
                  PointOutside(key, TRUE) => key \in PointReportKeys

\* C10: no check is left by an exception because a feature has no 'geometry'
\* entry or an empty geometries list: validity and point-in-polygon, in both
\* variants, skip such a feature.
C10_MissingGeometrySkipped ==
    (check \in ShapeChecks) => pc # "raised"

-----------------------------------------------------------------------------
(* The parent-containment runs (nose variant) *)

ContainKeys == {<<1, 0>>, <<2, 0>>, <<2, 1>>}

\* <<class, parent_id>>: a country and a state, each without parent or with
\* the feature of id 1 as parent
ContainKinds == {<<0, PyNone>>, <<0, PyInt(1)>>, <<1, PyNone>>, <<1, PyInt(1)>>}

\* {0,1,2} contains {1}; {2,3} crosses the border of {0,1,2}
ContainGeometries ==
    {<<FALSE, <<>>>>,
     <<TRUE, <<Polygon({0, 1, 2}, TRUE), Point(0)>>>>,
     <<TRUE, <<Polygon({1}, TRUE), Point(1)>>>>,
     <<TRUE, <<Polygon({2, 3}, TRUE), Point(2)>>>>,
     <<TRUE, <<Point(2), Polygon({2, 3}, TRUE)>>>>,
     <<TRUE, <<Polygon({2, 3}, FALSE), Point(2)>>>>}

ContainPool ==
    {Feature(k[1], k[2], PyInt(kind[1]), kind[2], gm[1], gm[2]) :
        k \in ContainKeys, kind \in ContainKinds, gm \in ContainGeometries}

ContainCheck == "test_polygonFallsWithinParent"

InitContain == InitOn(ContainPool, {"nose"}, DataTypes)

NextContain ==
    \/ SetUp
    \/ StartCheck(ContainCheck)
    \/ FallsWithinParentStep
    \/ FallsWithinParentFinish

SpecContain == InitContain /\ [][NextContain]_vars

ContainDone == pc = "done" /\ check = ContainCheck

\* The feature the record's (parent_id, map_code) resolves to has a polygon
ParentHasPolygon(record) ==
    /\ HasKey(id_indexed_record, ParentIndexKey(record))
    /\ id_indexed_record[ParentIndexKey(record)].has_geometry
    /\ PolyGeom(id_indexed_record[ParentIndexKey(record)]) # NoShape

TopologyErrorKeys == {ids_with_topology_error[j].composite_key :
                        j \in 1..Len(ids_with_topology_error)}

\* C8: when the containment check has finished, for every non-country feature
\* with a polygon whose parent resolves to a feature with a polygon (both
\* polygons valid, so that contains() is evaluated), the child's compound key
\* is in the violation list exactly when the parent polygon does not contain
\* the child polygon.
C8_ChildOutsideParentListed ==
    ContainDone =>
        \A j \in 1..Len(test_data) :
            LET record == test_data[j]
                parent == id_indexed_record[ParentIndexKey(record)]
            IN  (/\ record.has_geometry
                 /\ PolyGeom(record) # NoShape
                 /\ record.properties.class # PyInt(0)
                 /\ ParentHasPolygon(record)
                 /\ IsValid(PolyGeom(record))
                 /\ IsValid(PolyGeom(parent))) =>
                    ((CompPrimaryKey(record) \in Range(features_polygon_falls_within_parent))
                       <=> ~Contains(PolyGeom(parent), PolyGeom(record)))

\* C9: throughout the containment check, a country (class 0), a feature whose
\* (parent_id, map_code) is not in the id index, and a feature whose parent
\* has no polygon are in neither the violation list nor the topology-error
\* list, and the check is not left by an exception.
C9_UncheckedFeaturesAbsent ==
    (check = ContainCheck) =>
        /\ pc # "raised"
        /\ \A j \in 1..Len(test_data) :
             LET record == test_data[j]
             IN  (\/ record.properties.class = PyInt(0)
                  \/ ~HasKey(id_indexed_record, ParentIndexKey(record))
                  \/ ~ParentHasPolygon(record)) =>
                     /\ CompPrimaryKey(record) \notin
                          Range(features_polygon_falls_within_parent)
                     /\ CompPrimaryKey(record) \notin TopologyErrorKeys

\* A finished run over a country with a polygon whose parent's polygon does
\* not contain it
C9_Witness ==
    /\ ContainDone
    /\ \E j \in 1..Len(test_data) :
         /\ test_data[j].properties.class = PyInt(0)
         /\ GetPolygon(test_data[j]) # NoShape
         /\ ParentHasPolygon(test_data[j])
         /\ ~Contains(PolyGeom(id_indexed_record[ParentIndexKey(test_data[j])]),
                      GetPolygon(test_data[j]))

-----------------------------------------------------------------------------
(* readers.py, ReaderLocalCSVs *)

MaxRows == 2

\* self.file_structure, in the order of the dict literal
file_structure ==
    <<[class_name |-> "AreaCode", class_id |-> 101,
       files |-> <<"AreaCode.csv", "LocalDataAreaCode.csv">>],
      [class_name |-> "County", class_id |-> 2,
       files |-> <<"CountySynonyms.csv", "LocalDataCounty.csv", "County.csv">>],
      [class_name |-> "ZipCode", class_id |-> 100,
       files |-> <<"ZipCode.csv", "LocalDataZipCode.csv">>],
      [class_name |-> "CMSA", class_id |-> 102,
       files |-> <<"CMSA.csv", "CMSASynonyms.csv", "LocalDataCMSA.csv">>],
      [class_name |-> "State", class_id |-> 1,
       files |-> <<"State.csv", "StateSynonyms.csv", "LocalDataState.csv">>],
      [class_name |-> "City", class_id |-> 10,
       files |-> <<"City.csv", "CitySynonyms.csv", "LocalDataCity.csv">>],
      [class_name |-> "Congress", class_id |-> 103,
       files |-> <<"Congress.csv", "CongressSynonyms.csv", "LocalDataCongress.csv">>],
      [class_name |-> "Country", class_id |-> 0,
       files |-> <<"Country.csv", "CountrySynonyms.csv", "LocalDataCountry.csv">>]>>

ClassNames == {file_structure[k].class_name : k \in 1..Len(file_structure)}

ClassId(class_name) ==
    (CHOOSE e \in Range(file_structure) : e.class_name = class_name).class_id

\* self.file_structure.iteritems() hands out the classes in the order of the
\* dict's hash table: the order of the literal and its reverse put every two
\* classes both ways round
ClassOrders ==
    {[k \in 1..Len(file_structure) |-> file_structure[k].class_name],
     [k \in 1..Len(file_structure) |->
         file_structure[Len(file_structure) + 1 - k].class_name]}

\* class_attributes['files']
ClassFiles(class_name) ==
    (CHOOSE e \in Range(file_structure) : e.class_name = class_name).files

RECURSIVE FilesOf(_, _)
\* The files _create_cursor opens, in the order it opens them: class by class
\* from the k-th class of the order on, every class's files as listed
FilesOf(order, k) ==
    IF k > Len(order) THEN <<>>
    ELSE ClassFiles(order[k]) \o FilesOf(order, k + 1)

\* required_files_flattened
RequiredFiles == UNION {Range(ClassFiles(c)) : c \in ClassNames}

\* Mutant: the directory is not looked at
ValidateFilesSkipped(files) == TRUE

\* _validate_files: True when every required file is in the directory,
\* Exception('Error: Missing Expected CSV file.') (FALSE) when not
ValidateFiles(files) == RequiredFiles \subseteq files

\* int(text) of the texts the CSV fields hold; any other text raises ValueError
IntLiterals == ("0" :> 0) @@ ("1" :> 1) @@ ("01" :> 1) @@ ("2" :> 2)

IsIntLiteral(text) == text \in DOMAIN IntLiterals

ParseInt(text) == IntLiterals[text]

\* record['ID'] + '_' + record['MapCode'] (named rows),
\* record['ParentID'] + '_' + record['MapCode'] (local and synonym rows)
CompoundKey(record, file_type) ==
    (IF file_type = "named" THEN record.ID ELSE record.ParentID)
        \o "_" \o record.MapCode

\* The row has the two fields its compound key is joined from; without one of
\* them the concatenation raises (KeyError, or TypeError on a None)
KeyDerivable(row, file_type) ==
    /\ (IF file_type = "named" THEN "ID" ELSE "ParentID") \in DOMAIN row
    /\ "MapCode" \in DOMAIN row

\* `try: for record in reader: ... except Exception as e: print e`: the rows
\* before the first one that raises are kept, the exception is printed and the
\* rest of the file is not read
RowsRead(rows, file_type) ==
    LET failing == {j \in 1..Len(rows) : ~KeyDerivable(rows[j], file_type)}
    IN  IF failing = {} THEN rows ELSE SubSeq(rows, 1, SetMin(failing) - 1)

WithCompoundKey(rows, file_type) ==
    LET read == RowsRead(rows, file_type)
    IN  [j \in 1..Len(read) |->
            [row |-> read[j], compound_key |-> CompoundKey(read[j], file_type)]]

\* _get_class_generator up to its return: the rows of the three files
ReadClassFiles(files) ==
    [named |-> WithCompoundKey(files.named, "named"),
     local |-> WithCompoundKey(files.local, "local"),
     synonyms |-> WithCompoundKey(files.synonyms, "synonyms")]

\* _create_cursor: every class's files are read when the reader is built; the
\* generators are chained in the order iteritems() hands out the classes
CreateCursor ==
    /\ pc = "get_input_data"
    /\ data_type = "csv"
    /\ cursor = <<>>
    /\ records_from_files = <<>>
    /\ IF ~ValidateFiles(files_in_dir)
       THEN /\ raised' = "Exception"
            /\ pc' = "setUpFailed"
            /\ UNCHANGED <<records_from_files, cursor, opened>>
       ELSE \E order \in ClassOrders :
               LET files == FilesOf(order, 1)
                   absent == {j \in 1..Len(files) : files[j] \notin files_in_dir}
               IN  IF absent # {}
                   THEN /\ opened' = {files[j] : j \in 1..(SetMin(absent) - 1)}
                        /\ raised' = "IOError"
                        /\ pc' = "setUpFailed"
                        /\ UNCHANGED <<records_from_files, cursor>>
                   ELSE /\ opened' = Range(files)
                        /\ records_from_files' =
                              [c \in ClassNames |-> ReadClassFiles(in_dir[c])]
                        /\ cursor' = order
                        /\ UNCHANGED <<raised, pc>>
    /\ UNCHANGED <<variant, test_data, id_indexed_record, check, Locals,
                   runs, prev_overlapping, data_type, in_dir, database,
                   MergeVars, files_in_dir, staging_prefixes, pg_tables>>

\* Convert parent_id to int; '' stays as read, a text that is no int gives None
ParentIdOf(text) ==
    IF text = "" THEN PyStr("")
    ELSE IF IsIntLiteral(text) THEN PyInt(ParseInt(text))
    ELSE PyNone

\* Mutant: of the named rows with one compound_key the first is kept
NamedKeptFirst(named) ==
    {j \in 1..Len(named) :
        \A k \in 1..(j - 1) : named[k].compound_key # named[j].compound_key}

\* Mutant: every named row keeps a record of its own
NamedKeptAll(named) == 1..Len(named)

\* geojson_output[record['compound_key']] = out_record: of the named rows with
\* one compound_key the last is kept
NamedKept(named) ==
    {j \in 1..Len(named) :
        \A k \in (j + 1)..Len(named) : named[k].compound_key # named[j].compound_key}

\* Mutant: the geometry of the first local row of the key is kept
LocalGeometryOfFirst(local, key) ==
    LET at == {j \in 1..Len(local) : local[j].compound_key = key}
        record == local[SetMin(at)].row
    IN  IF at = {} THEN <<FALSE, <<>>>>
        ELSE <<TRUE, (IF "Geometry" \in DOMAIN record /\ record.Geometry # NoShape
                      THEN <<record.Geometry>> ELSE <<>>)
                      \o <<Point(record.Longitude)>>>>

\* geojson_output[key]['geometry'] of the local rows: the last row of the key,
\* the polygon (when Geometry is not 'None') followed by the point
LocalGeometry(local, key) ==
    LET at == {j \in 1..Len(local) : local[j].compound_key = key}
        record == local[SetMax(at)].row
    IN  IF at = {} THEN <<FALSE, <<>>>>
        ELSE <<TRUE, (IF "Geometry" \in DOMAIN record /\ record.Geometry # NoShape
                      THEN <<record.Geometry>> ELSE <<>>)
                      \o <<Point(record.Longitude)>>>>

\* record['Locale'].lower() of the locales the synonym files hold
LowerCase ==
    ("en_US" :> "en_us") @@ ("EN_US" :> "en_us") @@ ("de_DE" :> "de_de")

\* The synonym rows of the key, in the order of the file
SynonymRowsOf(synonyms, key) ==
    SelectSeq(synonyms, LAMBDA record : record.compound_key = key)

\* Mutant: a display name is appended to the synonyms as well
SynonymNamesWithDisplayNames(synonyms, key) ==
    LET own == SynonymRowsOf(synonyms, key)
    IN  IF own = <<>> THEN PyNone
        ELSE PyList([j \in 1..Len(own) |-> own[j].row.Name])

\* rec_props['synonyms']: None until the first row that is no display name,
\* then the Names of those rows in the order of the file
SynonymNames(synonyms, key) ==
    LET own == SelectSeq(SynonymRowsOf(synonyms, key),
                         LAMBDA record : record.row.IsDisplayName # "1")
    IN  IF own = <<>> THEN PyNone
        ELSE PyList([j \in 1..Len(own) |-> own[j].row.Name])

\* rec_props[locale] = record['Name'] of the display names: the properties
\* that are set, as <<locale, name>>; a later row of a locale replaces an
\* earlier one
DisplayNames(synonyms, key) ==
    LET own == SelectSeq(SynonymRowsOf(synonyms, key),
                         LAMBDA record : record.row.IsDisplayName = "1")
        locale(j) == LowerCase[own[j].row.Locale]
    IN  {<<locale(j), own[j].row.Name>> :
            j \in {a \in 1..Len(own) :
                     \A b \in (a + 1)..Len(own) : locale(b) # locale(a)}}

\* The feature assembled for a named row
OutRecord(class_name, record, csv_records) ==
    LET geometry == LocalGeometry(csv_records.local, record.compound_key)
        out_record == Feature(ParseInt(record.row.ID), ParseInt(record.row.MapCode),
                              PyInt(ClassId(class_name)),
                              ParentIdOf(record.row.ParentID),
                              geometry[1], geometry[2])
    IN  [out_record EXCEPT
            !.properties.synonyms = SynonymNames(csv_records.synonyms, record.compound_key),
            !.properties.names = DisplayNames(csv_records.synonyms, record.compound_key)]

\* Mutant: a local or synonym row without a named row is passed over
AssemblyErrorOfNamed(csv_records) ==
    IF \E j \in 1..Len(csv_records.named) :
          \/ ~IsIntLiteral(csv_records.named[j].row.MapCode)
          \/ ~IsIntLiteral(csv_records.named[j].row.ID)
    THEN "ValueError"
    ELSE "none"

\* The exception that leaves _records_for_class_to_geojson before its first
\* yield, or "none"
AssemblyError(csv_records) ==
    LET keys == {csv_records.named[j].compound_key : j \in 1..Len(csv_records.named)}
    IN  IF \E j \in 1..Len(csv_records.named) :
              \/ ~IsIntLiteral(csv_records.named[j].row.MapCode)
              \/ ~IsIntLiteral(csv_records.named[j].row.ID)
        THEN "ValueError"
        ELSE IF \E j \in 1..Len(csv_records.local) :
                   csv_records.local[j].compound_key \notin keys
        THEN "KeyError"
        ELSE IF \E j \in 1..Len(csv_records.synonyms) :
                   csv_records.synonyms[j].compound_key \notin keys
        THEN "KeyError"
        ELSE "none"

\* The orders in which a dict hands out the values kept at the places S
Orderings(S) ==
    {seq \in [1..Cardinality(S) -> S] :
        \A a, b \in 1..Cardinality(S) : a # b => seq[a] # seq[b]}

\* [r for r in local_csv_conn] drains the next generator of the chain:
\* _records_for_class_to_geojson assembles the class's features and yields
\* geojson_output.itervalues().  An exception of the assembly leaves
\* get_input_data, and with it setUp.
ClassGenerator ==
    /\ pc = "get_input_data"
    /\ data_type = "csv"
    /\ cursor # <<>>
    /\ LET class_name == Head(cursor)
           csv_records == records_from_files[class_name]
           error == AssemblyError(csv_records)
       IN  IF error # "none"
           THEN /\ raised' = error
                /\ pc' = "setUpFailed"
                /\ UNCHANGED <<test_data, cursor>>
           ELSE /\ \E order \in Orderings(NamedKept(csv_records.named)) :
                     test_data' = test_data \o
                        [k \in 1..Len(order) |->
                            OutRecord(class_name, csv_records.named[order[k]],
                                      csv_records)]
                /\ cursor' = Tail(cursor)
                /\ pc' = IF Tail(cursor) = <<>> THEN "setUp" ELSE pc
                /\ UNCHANGED raised
    /\ UNCHANGED <<variant, id_indexed_record, check, Locals, runs,
                   prev_overlapping, data_type, in_dir, records_from_files,
                   database, MergeVars, SourceVars>>

-----------------------------------------------------------------------------
(* readers.py, ReaderPostgres *)

\* generate_select_statements: the tables that are queried
TableNames == {"features", "names", "synonyms", "points", "polygons"}

\* The first two columns of a table's SELECT list, which validate_keys reads
\* as row[0] and row[1]
FirstTwoColumns(table_name, row) ==
    CASE table_name = "features" -> <<PyInt(row.id), row.parent_id>>
      [] table_name = "names" -> <<row.de_de, row.es_es>>
      [] table_name = "synonyms" -> <<row.name, PyInt(row.map_code)>>
      [] OTHER -> <<PyInt(row.id), PyInt(row.map_code)>>

\* Mutant: validate_keys lets every table pass
ValidateKeysLogsOnly(in_data, table_name) == TRUE

\* validate_keys(in_data, table_name) returns (TRUE) or raises ValueError
\* (FALSE): a key column that is None or '', or a combination held twice
ValidateKeys(in_data, table_name) ==
    LET key(j) == FirstTwoColumns(table_name, in_data[j])
        compound_key(j) == Str(key(j)[1]) \o "_" \o Str(key(j)[2])
    IN  /\ \A j \in 1..Len(in_data) :
             \A c \in 1..2 : key(j)[c] # PyNone /\ key(j)[c] # PyStr("")
        /\ \A a, b \in 1..Len(in_data) :
             a # b => compound_key(a) # compound_key(b)

\* Mutant: validate_keys is called for a table without rows too, where
\* key_count.most_common(1)[0] raises
QueryDatasetsUnguarded(dataset) ==
    \E table_name \in TableNames \ {"synonyms"} :
        \/ Len(dataset[table_name]) = 0
        \/ ~ValidateKeys(dataset[table_name], table_name)

\* query_datasets leaves by ValueError when a table other than synonyms has
\* rows that validate_keys rejects
QueryDatasetsRaises(dataset) ==
    \E table_name \in TableNames \ {"synonyms"} :
        /\ Len(dataset[table_name]) > 0
        /\ ~ValidateKeys(dataset[table_name], table_name)

\* str(record['id']) + '_' + str(record['map_code'])
RowKey(record) == ToString(record.id) \o "_" \o ToString(record.map_code)

\* dataset_to_hash_map: a table becomes a dict from compound key to its row
\* (the last row of the key), synonyms a dict from compound key to its rows
DatasetToHashMap(in_dataset) ==
    [table_name \in DOMAIN in_dataset |->
        LET table_values == in_dataset[table_name]
            keys == {RowKey(table_values[j]) : j \in 1..Len(table_values)}
            at(k) == {j \in 1..Len(table_values) : RowKey(table_values[j]) = k}
        IN  [k \in keys |->
                IF table_name = "synonyms"
                THEN [j \in 1..Cardinality(at(k)) |->
                        table_values[CHOOSE p \in at(k) :
                            Cardinality({q \in at(k) : q <= p}) = j]]
                ELSE table_values[SetMax(at(k))]]]

\* Mutant: the staged table takes the place of the production table
UpdatedByAssignment(production, merge) == merge

\* in_production_hash[table_name].update(in_merge_hash[table_name]): a staged
\* row replaces the production row of its key
Updated(production, merge) ==
    [k \in DOMAIN production \cup DOMAIN merge |->
        IF k \in DOMAIN merge THEN merge[k] ELSE production[k]]

\* The synonyms branch, on the rows: staged synonyms are appended to the
\* production synonyms of their key, or become the entry of a new key
SynonymsAppended(production, merge) ==
    [k \in DOMAIN production \cup DOMAIN merge |->
        IF k \notin DOMAIN merge THEN production[k]
        ELSE IF k \in DOMAIN production THEN production[k] \o merge[k]
        ELSE merge[k]]

\* _apply_staging, on the rows
ApplyStaging(in_production_hash, in_merge_hash) ==
    [table_name \in DOMAIN in_production_hash |->
        IF table_name = "synonyms"
        THEN SynonymsAppended(in_production_hash[table_name], in_merge_hash[table_name])
        ELSE Updated(in_production_hash[table_name], in_merge_hash[table_name])]

RECURSIVE MergedHash(_, _, _)
\* _generate_output_iterable: the staging datasets, from the k-th on, are
\* applied in the order of the prefixes
MergedHash(data_as_hash, staging_datasets, k) ==
    IF k > Len(staging_datasets)
    THEN data_as_hash
    ELSE MergedHash(ApplyStaging(data_as_hash,
                                 DatasetToHashMap(staging_datasets[k])),
                    staging_datasets, k + 1)

\* The row_ids of _records_to_geojson
RowIds(in_data_hash) == UNION {DOMAIN in_data_hash[t] : t \in TableNames}

\* The record _records_to_geojson builds under row_id; geom_tables is the
\* order in which iteritems() hands out the two geometry tables
GeojsonRecord(in_data_hash, row_id, geom_tables) ==
    LET has(t) == row_id \in DOMAIN in_data_hash[t]
        keyed == IF has("synonyms") /\ \A t \in TableNames \ {"synonyms"} : ~has(t)
                 THEN in_data_hash["synonyms"][row_id][1]
                 ELSE in_data_hash[CHOOSE t \in TableNames \ {"synonyms"} : has(t)][row_id]
        geoms(t) == IF has(t) THEN <<in_data_hash[t][row_id].geom>> ELSE <<>>
    IN  Feature(keyed.id, keyed.map_code,
                IF has("features") THEN PyInt(in_data_hash["features"][row_id].class)
                ELSE PyNone,
                IF has("features") THEN in_data_hash["features"][row_id].parent_id
                ELSE PyNone,
                TRUE,
                geoms(geom_tables[1]) \o geoms(geom_tables[2]))

\* ReaderPostgres.__init__: query_datasets for production and for every staging
\* prefix, then _generate_output_iterable; records_as_geojson.values() hands
\* out the records in the order of the dict
ReaderPostgresInit ==
    /\ pc = "get_input_data"
    /\ data_type = "postgres"
    /\ IF \E k \in 1..Len(database) : QueryDatasetsRaises(database[k])
       THEN /\ raised' = "ValueError"
            /\ pc' = "setUpFailed"
            /\ UNCHANGED test_data
       ELSE LET data_as_hash == MergedHash(DatasetToHashMap(database[1]),
                                           Tail(database), 1)
            IN  /\ \E geom_tables \in {<<"points", "polygons">>,
                                       <<"polygons", "points">>} :
                     \E order \in Orderings(RowIds(data_as_hash)) :
                        test_data' =
                           [k \in 1..Len(order) |->
                               GeojsonRecord(data_as_hash, order[k], geom_tables)]
                /\ pc' = "setUp"
                /\ UNCHANGED raised
    /\ UNCHANGED <<variant, id_indexed_record, check, Locals, runs,
                   prev_overlapping, data_type, in_dir, records_from_files,
                   cursor, database, MergeVars, SourceVars>>

-----------------------------------------------------------------------------
(* Reading the feature set: the CSV directories and the databases *)

NamedRow(id, map_code, parent_id) ==
    [ID |-> id, MapCode |-> map_code, ParentID |-> parent_id]

LocalRow(parent_id, map_code, geom, longitude) ==
    [ParentID |-> parent_id, MapCode |-> map_code, Geometry |-> geom,
     Longitude |-> longitude]

NameRow(parent_id, map_code, is_display_name, locale, name) ==
    [ParentID |-> parent_id, MapCode |-> map_code,
     IsDisplayName |-> is_display_name, Locale |-> locale, Name |-> name]

SynonymRow(parent_id, map_code) == NameRow(parent_id, map_code, "0", "en_US", "alias")

InClass(class_name, row) == [class_name |-> class_name, row |-> row]

\* Named rows: countries and states whose ID texts are distinct, equal, or
\* distinct texts of one integer; a state of another map_code; an ID that is
\* no integer; countries without ParentID and a state whose ParentID is no
\* integer
NamedEntries ==
    {InClass("Country", NamedRow(id, "0", "")) : id \in {"1", "01", "2"}}
    \cup {InClass("State", NamedRow(id, "0", "1")) : id \in {"1", "01", "2"}}
    \cup {InClass("State", NamedRow("1", "1", "1")),
          InClass("State", NamedRow("x", "0", "1")),
          InClass("State", NamedRow("2", "0", "x"))}

LocalEntries ==
    {InClass("State", LocalRow("1", "0", Polygon({0, 1}, TRUE), 0)),
     InClass("State", LocalRow("1", "0", NoShape, 0)),
     InClass("State", LocalRow("2", "0", Polygon({1, 2}, TRUE), 1)),
     InClass("Country", LocalRow("1", "0", Polygon({0, 1, 2}, TRUE), 1))}

SynonymEntries ==
    {InClass("State", SynonymRow("1", "0")), InClass("State", SynonymRow("2", "0"))}

\* The rows of a class's file among the entries, in their order
RowsOf(entries, class_name) ==
    LET own == SelectSeq(entries, LAMBDA e : e.class_name = class_name)
    IN  [j \in 1..Len(own) |-> own[j].row]

Directory(named, local, synonyms) ==
    [c \in ClassNames |->
        [named |-> RowsOf(named, c), local |-> RowsOf(local, c),
         synonyms |-> RowsOf(synonyms, c)]]

CsvDirectories ==
    {Directory(n, l, s) : n \in SeqsUpTo(NamedEntries, MaxRows),
                          l \in SeqsUpTo(LocalEntries, 1),
                          s \in SeqsUpTo(SynonymEntries, 1)}

FeaturesRow(id, parent_id, class, map_code) ==
    [id |-> id, parent_id |-> parent_id, class |-> class, map_code |-> map_code]

NamesRow(de_de, es_es, id, map_code) ==
    [de_de |-> de_de, es_es |-> es_es, id |-> id, map_code |-> map_code]

SynonymsRow(name, map_code, id) ==
    [name |-> PyStr(name), map_code |-> map_code, id |-> id]

GeomRow(id, map_code, geom) == [id |-> id, map_code |-> map_code, geom |-> geom]

Dataset(features, names, synonyms, points, polygons) ==
    [features |-> features, names |-> names, synonyms |-> synonyms,
     points |-> points, polygons |-> polygons]

\* Production tables: features with distinct keys, with one (id, parent_id)
\* under two map_codes, with one key under two parents, with one key twice
\* under one parent, and a country without parent; names with and without the first two locales; a key that only the
\* synonyms hold; points and polygons of the same and of another key
ProductionDatasets ==
    {Dataset(f, n, s, pt, pl) :
        f \in {<<>>,
               <<FeaturesRow(1, PyInt(9), 1, 0)>>,
               <<FeaturesRow(1, PyInt(9), 1, 0), FeaturesRow(2, PyInt(9), 1, 0)>>,
               <<FeaturesRow(1, PyInt(9), 1, 0), FeaturesRow(1, PyInt(9), 1, 1)>>,
               <<FeaturesRow(1, PyInt(9), 1, 0), FeaturesRow(1, PyInt(8), 1, 0)>>,
               <<FeaturesRow(1, PyInt(9), 1, 0), FeaturesRow(1, PyInt(9), 2, 0)>>,
               <<FeaturesRow(9, PyNone, 0, 0)>>},
        n \in {<<>>,
               <<NamesRow(PyStr("eins"), PyStr("uno"), 1, 0)>>,
               <<NamesRow(PyNone, PyStr("uno"), 1, 0)>>},
        s \in {<<>>, <<SynonymsRow("one", 0, 3)>>},
        pt \in {<<>>, <<GeomRow(1, 0, Point(0))>>},
        pl \in {<<>>,
                <<GeomRow(1, 0, Polygon({0, 1}, TRUE))>>,
                <<GeomRow(2, 0, Polygon({1, 2}, TRUE))>>}}

\* Staging tables: a feature and a polygon that replace production rows
StagingDatasets ==
    {Dataset(f, <<>>, s, <<>>, pl) :
        f \in {<<>>, <<FeaturesRow(1, PyInt(7), 2, 0)>>},
        s \in {<<>>, <<SynonymsRow("uno", 0, 3)>>},
        pl \in {<<>>, <<GeomRow(1, 0, Polygon({2, 3}, TRUE))>>}}

Databases ==
    {<<p>> : p \in ProductionDatasets}
    \cup {<<p, s>> : p \in ProductionDatasets, s \in StagingDatasets}

InitReaders ==
    /\ variant \in Variants
    /\ \/ /\ data_type = "csv"
          /\ in_dir \in CsvDirectories
          /\ files_in_dir = RequiredFiles
          /\ database = <<>>
       \/ /\ data_type = "postgres"
          /\ in_dir = <<>>
          /\ files_in_dir = {}
          /\ database \in Databases
    /\ records_from_files = <<>>
    /\ cursor = <<>>
    /\ production_data_as_hash = <<>>
    /\ staging_hashes = <<>>
    /\ heap = <<>>
    /\ opened = {}
    /\ staging_prefixes = <<>>
    /\ pg_tables = <<>>
    /\ test_data = <<>>
    /\ id_indexed_record = <<>>
    /\ pc = "get_input_data"
    /\ check = "none"
    /\ i = 1
    /\ polygon_shapes = <<>>
    /\ candidates = {}
    /\ features_invalid_shape = <<>>
    /\ features_point_outside_polygon = <<>>
    /\ features_with_overlapping_polygons = <<>>
    /\ features_polygon_falls_within_parent = <<>>
    /\ ids_with_topology_error = <<>>
    /\ raised = "none"
    /\ runs = 1
    /\ prev_overlapping = NoPrevious

NextReaders ==
    \/ CreateCursor
    \/ ClassGenerator
    \/ ReaderPostgresInit
    \/ SetUp

SpecReaders == InitReaders /\ [][NextReaders]_vars

-----------------------------------------------------------------------------
(* Properties of the readers *)

\* get_input_data has returned the records
DataRead == pc \in {"setUp", "ready"} \/ (pc = "setUpFailed" /\ raised = "AssertionError")

\* C1 as stated: of the records one reader yields, no two have the same
\* compound key id_map_code.
C1_NoTwoRecordsShareKey ==
    DataRead =>
        \A a, b \in 1..Len(test_data) :
            a # b => CompPrimaryKey(test_data[a]) # CompPrimaryKey(test_data[b])

\* The named rows of the class with the given class id whose ID and MapCode
\* denote the compound key
RowsDenoting(class, key) ==
    LET named == in_dir[CHOOSE c \in ClassNames : PyInt(ClassId(c)) = class].named
    IN  {j \in 1..Len(named) :
            /\ IsIntLiteral(named[j].ID)
            /\ IsIntLiteral(named[j].MapCode)
            /\ ToString(IntLiterals[named[j].ID]) \o "_"
                 \o ToString(IntLiterals[named[j].MapCode]) = key}

\* C1 (amended): ReaderPostgres yields no two records with the same compound
\* key; two records ReaderLocalCSVs yields have the same compound key only
\* when they are of different class files, or when the class file holds two
\* rows whose ID_MapCode texts differ and denote that key; and a class file
\* contributes one record for every distinct ID_MapCode text of its rows.
C1_OneRecordPerKeyText ==
    DataRead =>
        /\ data_type = "postgres" =>
             \A a, b \in 1..Len(test_data) :
                a # b => CompPrimaryKey(test_data[a]) # CompPrimaryKey(test_data[b])
        /\ data_type = "csv" =>
             /\ \A a, b \in 1..Len(test_data) :
                  (/\ a # b
                   /\ CompPrimaryKey(test_data[a]) = CompPrimaryKey(test_data[b])
                   /\ test_data[a].properties.class = test_data[b].properties.class)
                  => \E j, k \in RowsDenoting(test_data[a].properties.class,
                                              CompPrimaryKey(test_data[a])) :
                        LET named == in_dir[CHOOSE c \in ClassNames :
                                PyInt(ClassId(c)) = test_data[a].properties.class].named
                        IN  named[j].ID \o "_" \o named[j].MapCode
                              # named[k].ID \o "_" \o named[k].MapCode
             /\ \A c \in ClassNames :
                  Cardinality({a \in 1..Len(test_data) :
                                 test_data[a].properties.class = PyInt(ClassId(c))})
                  = Cardinality({in_dir[c].named[j].ID \o "_" \o in_dir[c].named[j].MapCode :
                                   j \in 1..Len(in_dir[c].named)})

\* A class file with two rows of one ID_MapCode text has been read, and the
\* reader yielded one record for them
C1_Witness ==
    /\ pc = "setUp"
    /\ data_type = "csv"
    /\ Len(test_data) = 1
    /\ \E c \in ClassNames :
         /\ Len(in_dir[c].named) = 2
         /\ in_dir[c].named[1].ID = in_dir[c].named[2].ID
         /\ in_dir[c].named[1].MapCode = in_dir[c].named[2].MapCode

-----------------------------------------------------------------------------
(* The overlap and the parent-containment runs on polygons whose predicates
   may raise *)

TopologyChecks == {OverlapCheck, ContainCheck}

\* {0,1} and {1,2} overlap and neither contains the other; a predicate may
\* raise on the invalid {0,1}
TopologyPolygons ==
    {Polygon({0, 1}, TRUE), Polygon({0, 1}, FALSE), Polygon({1, 2}, TRUE)}

\* Features of one class and map_code whose parent_id is one of the ids (the
\* feature itself, the other feature, or a feature that is not in the set)
TopologyPool ==
    {Feature(id, BaseLayer[2], PyInt(BaseLayer[1]), PyInt(parent_id), TRUE,
             <<g, Point(SetMin(g.cells))>>) :
        id \in IdValues, parent_id \in IdValues, g \in TopologyPolygons}

InitTopology == InitOn(TopologyPool, Variants, {"csv"})

NextTopology ==
    \/ SetUp
    \/ \E c \in TopologyChecks : StartCheck(c)
    \/ OverlapBuildIndex
    \/ OverlapQuery
    \/ OverlapPair
    \/ OverlapNextData
    \/ OverlapFinish
    \/ FallsWithinParentStep
    \/ FallsWithinParentFinish

SpecTopology == InitTopology /\ [][NextTopology]_vars

\* A step of a loop in which an evaluation raised: ids_with_topology_error
\* has one more entry
TopologyErrorStep ==
    /\ check \in TopologyChecks
    /\ pc \in {"running", "pairs"}
    /\ Len(ids_with_topology_error') = Len(ids_with_topology_error) + 1

\* The feature whose polygon _get_Polygon finds is compared with its parent
ComparedWithParent(record) ==
    /\ GetPolygon(record) # NoShape
    /\ record.properties.class # PyInt(0)
    /\ ParentIndexKey(record) \in DOMAIN id_indexed_record
    /\ GetPolygon(id_indexed_record[ParentIndexKey(record)]) # NoShape

\* C11: in the overlap and the parent-containment checks no exception of a
\* predicate leaves the check; the step in which an evaluation raises appends
\* the pair (or the child) to ids_with_topology_error, leaves the violation
\* list as it was and stays in the loop; and the check ends having visited
\* every polygon (or record), with every child whose comparison cannot raise
\* listed exactly when its parent does not contain it, and every overlapping
\* pair of valid polygons reported, whatever raised before or after.
C11_TopologyErrorSkipsItem ==
    /\ [](check \in TopologyChecks => pc # "raised")
    /\ [][TopologyErrorStep =>
            /\ features_with_overlapping_polygons' = features_with_overlapping_polygons
            /\ features_polygon_falls_within_parent' = features_polygon_falls_within_parent
            /\ pc' = pc
            /\ \A j \in 1..Len(ids_with_topology_error) :
                 ids_with_topology_error'[j] = ids_with_topology_error[j]
            /\ check = ContainCheck =>
                 /\ i' = i + 1
                 /\ ids_with_topology_error'[Len(ids_with_topology_error')].composite_key
                      = CompPrimaryKey(test_data[i])
            /\ check = OverlapCheck =>
                 /\ Cardinality(candidates') = Cardinality(candidates) - 1
                 /\ \E key \in candidates \ candidates' :
                      ids_with_topology_error'[Len(ids_with_topology_error')].composite_key
                        = EntryKey(polygon_shapes[key]) \o ";"
                            \o EntryKey(polygon_shapes[i])]_vars
    /\ []((pc = "done" /\ check = ContainCheck) =>
            /\ i = Len(test_data) + 1
            /\ \A j \in 1..Len(test_data) :
                 LET record == test_data[j]
                     parent == GetPolygon(id_indexed_record[ParentIndexKey(record)])
                 IN  (/\ ComparedWithParent(record)
                      /\ GetPolygon(record).valid
                      /\ parent.valid)
                     => (CompPrimaryKey(record) \in Range(features_polygon_falls_within_parent)
                           <=> ~(GetPolygon(record).cells \subseteq parent.cells)))
    /\ []((pc = "done" /\ check = OverlapCheck /\ variant = "nose") =>
            /\ i = Len(polygon_shapes) + 1
            /\ \A a, b \in 1..Len(polygon_shapes) :
                 (/\ a < b
                  /\ OverlappingPair(polygon_shapes[a], polygon_shapes[b])
                  /\ polygon_shapes[a].polygon.valid
                  /\ polygon_shapes[b].polygon.valid)
                 => PairEntries(features_with_overlapping_polygons,
                                polygon_shapes[a], polygon_shapes[b]) # {})

\* A finished containment run in which one child's evaluation raised and a
\* child visited after it was listed
C11_Witness ==
    /\ pc = "done"
    /\ check = ContainCheck
    /\ Len(ids_with_topology_error) = 1
    /\ Len(features_polygon_falls_within_parent) = 1
    /\ ids_with_topology_error[1].composite_key = CompPrimaryKey(test_data[1])
    /\ features_polygon_falls_within_parent[1] = CompPrimaryKey(test_data[2])

-----------------------------------------------------------------------------
(* readers.py, _generate_output_iterable and _apply_staging on the objects:
   the dict of a synonyms table holds, for a compound key, a reference to a
   list, and two dicts can hold a reference to the same list *)

MaxStaging == 2

\* The elements of a set of keys, in the order a dict hands them out
Enumerated(S) ==
    CHOOSE seq \in [1..Cardinality(S) -> S] :
        \A a, b \in 1..Cardinality(S) : a # b => seq[a] # seq[b]

\* dataset_to_hash_map with the lists it creates put on the heap h: every key
\* of the synonyms table gets a list of its own
HashOnHeap(in_dataset, h) ==
    LET transformed_data == DatasetToHashMap(in_dataset)
        keys == IF "synonyms" \in DOMAIN transformed_data
                THEN Enumerated(DOMAIN transformed_data["synonyms"])
                ELSE <<>>
    IN  [hash |->
            [table_name \in DOMAIN transformed_data |->
                IF table_name = "synonyms"
                THEN [k \in DOMAIN transformed_data[table_name] |->
                        Len(h) + (CHOOSE j \in 1..Len(keys) : keys[j] = k)]
                ELSE transformed_data[table_name]],
         heap |-> h \o [j \in 1..Len(keys) |-> transformed_data["synonyms"][keys[j]]]]

\* A hash with the lists its synonyms table refers to
Deref(hash, h) ==
    [table_name \in DOMAIN hash |->
        IF table_name = "synonyms"
        THEN [k \in DOMAIN hash[table_name] |-> h[hash[table_name][k]]]
        ELSE hash[table_name]]

\* Mutant: production_synonyms.extend(synonym_value), the list is grown in place
SynonymsMergedInPlace(h, production, merge) ==
    [table |-> [k \in DOMAIN production \cup DOMAIN merge |->
                  IF k \in DOMAIN production THEN production[k] ELSE merge[k]],
     heap |-> [r \in 1..Len(h) |->
                 IF \E k \in DOMAIN production \cap DOMAIN merge : production[k] = r
                 THEN h[r] \o h[merge[CHOOSE k \in DOMAIN production \cap DOMAIN merge :
                                         production[k] = r]]
                 ELSE h[r]]]

\* Mutant: a staged synonym that the production list already holds is not
\* added again
SynonymsMergedOnce(h, production, merge) ==
    LET update == Enumerated(DOMAIN production \cap DOMAIN merge)
    IN  [table |-> [k \in DOMAIN production \cup DOMAIN merge |->
                      IF k \notin DOMAIN merge THEN production[k]
                      ELSE IF k \in DOMAIN production
                      THEN Len(h) + (CHOOSE j \in 1..Len(update) : update[j] = k)
                      ELSE merge[k]],
         heap |-> h \o [j \in 1..Len(update) |->
                          h[production[update[j]]] \o
                          SelectSeq(h[merge[update[j]]],
                                    LAMBDA record :
                                      \A n \in 1..Len(h[production[update[j]]]) :
                                          h[production[update[j]]][n] # record)]]

\* Mutant: the synonyms table is updated like the other tables
SynonymsMergedByUpdate(h, production, merge) ==
    [table |-> [k \in DOMAIN production \cup DOMAIN merge |->
                  IF k \in DOMAIN merge THEN merge[k] ELSE production[k]],
     heap |-> h]

\* The synonyms branch of _apply_staging.  Update: production_synonyms +
\* synonym_value is a new list, which takes the place of the production list;
\* insert: the production dict refers to the staged list itself.
SynonymsMerged(h, production, merge) ==
    LET update == Enumerated(DOMAIN production \cap DOMAIN merge)
    IN  [table |-> [k \in DOMAIN production \cup DOMAIN merge |->
                      IF k \notin DOMAIN merge THEN production[k]
                      ELSE IF k \in DOMAIN production
                      THEN Len(h) + (CHOOSE j \in 1..Len(update) : update[j] = k)
                      ELSE merge[k]],
         heap |-> h \o [j \in 1..Len(update) |->
                          h[production[update[j]]] \o h[merge[update[j]]]]]

\* _apply_staging on the tables of `visited`, the tables the loop over
\* in_production_hash.iterkeys() has reached
ApplyStagingTo(visited, h, in_production_hash, in_merge_hash) ==
    LET synonyms == SynonymsMerged(h, in_production_hash["synonyms"],
                                   in_merge_hash["synonyms"])
    IN  [hash |->
            [table_name \in DOMAIN in_production_hash |->
                IF table_name \notin visited THEN in_production_hash[table_name]
                ELSE IF table_name = "synonyms" THEN synonyms.table
                ELSE Updated(in_production_hash[table_name], in_merge_hash[table_name])],
         heap |-> IF "synonyms" \in visited THEN synonyms.heap ELSE h]

\* Mutant: the staging datasets are taken from the end of the list
StagingDatasetFromEnd(staging_datasets, k) ==
    staging_datasets[Len(staging_datasets) + 1 - k]

\* `for staging_dataset in staging_datasets`: the k-th dataset of the list
StagingDataset(staging_datasets, k) == staging_datasets[k]

\* Mutant: a table the staging hash lacks is passed over in silence
KeyErrorSwallowed(in_production_hash, in_merge_hash) == FALSE

\* in_merge_hash[table_name] for a table of the production hash that the
\* staging hash has no entry for
KeyErrorRaised(in_production_hash, in_merge_hash) ==
    DOMAIN in_production_hash \ DOMAIN in_merge_hash # {}

\* One turn of the loop of _generate_output_iterable: the next staging dataset
\* is hashed and applied to the production hash.  _apply_staging reads
\* in_merge_hash[table_name] for every table of the production hash, in the
\* order of iterkeys(): a table the staging hash lacks raises KeyError after
\* the tables visited before it have been merged.
MergeStaging ==
    /\ pc = "merge"
    /\ Len(staging_hashes) < Len(database) - 1
    /\ LET staging_dataset == StagingDataset(Tail(database), Len(staging_hashes) + 1)
           staging_dataset_as_hash == HashOnHeap(staging_dataset, heap)
           in_merge_hash == staging_dataset_as_hash.hash
           missing == DOMAIN production_data_as_hash \ DOMAIN in_merge_hash
       IN  /\ staging_hashes' = Append(staging_hashes, in_merge_hash)
           /\ \E visited \in (IF missing = {}
                              THEN {DOMAIN production_data_as_hash}
                              ELSE SUBSET (DOMAIN production_data_as_hash \ missing)) :
                LET merged == ApplyStagingTo(visited, staging_dataset_as_hash.heap,
                                             production_data_as_hash, in_merge_hash)
                IN  /\ production_data_as_hash' = merged.hash
                    /\ heap' = merged.heap
           /\ pc' = IF KeyErrorRaised(production_data_as_hash, in_merge_hash)
                    THEN "raised" ELSE pc
           /\ raised' = IF KeyErrorRaised(production_data_as_hash, in_merge_hash)
                        THEN "KeyError" ELSE raised
    /\ UNCHANGED <<variant, test_data, id_indexed_record, check, Locals, runs,
                   prev_overlapping, data_type, in_dir, records_from_files,
                   cursor, database, SourceVars>>

\* Production tables of the merge runs: names that no staging dataset touches,
\* with or without a feature, synonyms and a polygon of their key
MergeProduction ==
    {Dataset(f, <<NamesRow(PyStr("eins"), PyStr("uno"), 1, 0)>>, s, <<>>, pl) :
        f \in {<<>>, <<FeaturesRow(1, PyInt(9), 1, 0)>>},
        s \in {<<>>, <<SynonymsRow("one", 0, 3)>>,
               <<SynonymsRow("one", 0, 3), SynonymsRow("uno", 0, 3)>>},
        pl \in {<<>>, <<GeomRow(1, 0, Polygon({0, 1}, TRUE))>>}}

\* A dataset without one of its tables
Without(dataset, table_name) ==
    [t \in DOMAIN dataset \ {table_name} |-> dataset[t]]

\* A staged feature, synonym and polygon of keys production may hold
StagedRows ==
    Dataset(<<FeaturesRow(1, PyInt(7), 2, 0)>>, <<>>,
            <<SynonymsRow("ein", 0, 3)>>, <<>>,
            <<GeomRow(1, 0, Polygon({2, 3}, TRUE))>>)

\* Staging tables of the merge runs: no rows at all; rows that replace
\* production rows; rows of further keys; synonyms alone; and datasets that
\* lack a table
MergeStagingDatasets ==
    {Dataset(<<>>, <<>>, <<>>, <<>>, <<>>),
     StagedRows,
     Dataset(<<FeaturesRow(1, PyInt(8), 2, 0), FeaturesRow(2, PyInt(8), 2, 0)>>, <<>>,
             <<SynonymsRow("un", 0, 3), SynonymsRow("vier", 0, 4)>>, <<>>, <<>>),
     Dataset(<<>>, <<>>, <<SynonymsRow("ein", 0, 3)>>, <<>>, <<>>),
     Without(StagedRows, "names"),
     Without(StagedRows, "synonyms")}

\* _generate_output_iterable entered: the production data has been hashed
InitStaging ==
    /\ variant \in {"nose"}
    /\ data_type = "postgres"
    /\ in_dir = <<>>
    /\ \E p \in MergeProduction, s \in SeqsUpTo(MergeStagingDatasets, MaxStaging) :
         /\ database = <<p>> \o s
         /\ production_data_as_hash = HashOnHeap(p, <<>>).hash
         /\ heap = HashOnHeap(p, <<>>).heap
    /\ staging_hashes = <<>>
    /\ files_in_dir = {}
    /\ opened = {}
    /\ staging_prefixes = <<>>
    /\ pg_tables = <<>>
    /\ records_from_files = <<>>
    /\ cursor = <<>>
    /\ test_data = <<>>
    /\ id_indexed_record = <<>>
    /\ pc = "merge"
    /\ check = "none"
    /\ i = 1
    /\ polygon_shapes = <<>>
    /\ candidates = {}
    /\ features_invalid_shape = <<>>
    /\ features_point_outside_polygon = <<>>
    /\ features_with_overlapping_polygons = <<>>
    /\ features_polygon_falls_within_parent = <<>>
    /\ ids_with_topology_error = <<>>
    /\ raised = "none"
    /\ runs = 1
    /\ prev_overlapping = NoPrevious

NextStaging == MergeStaging

SpecStaging == InitStaging /\ [][NextStaging]_vars

-----------------------------------------------------------------------------
(* Properties of the staging merge *)

\* The staging datasets applied so far
AppliedDatasets == SubSeq(database, 2, Len(staging_hashes) + 1)

\* A staging dataset with zero rows in every table
NoRowsAtAll(dataset) ==
    /\ DOMAIN dataset = TableNames
    /\ \A t \in TableNames : dataset[t] = <<>>

\* The production hash with its synonym lists
MergedValue == Deref(production_data_as_hash, heap)

\* C12: as long as no staging dataset has been applied (the list is empty, or
\* the loop has not run yet) or every staging dataset applied had zero rows in
\* every table, the merged hash has, for every table and every compound key,
\* what the hash of the production data has.
C12_EmptyStagingIsNoOp ==
    (/\ pc = "merge"
     /\ \A k \in 1..Len(AppliedDatasets) : NoRowsAtAll(AppliedDatasets[k]))
    => /\ DOMAIN MergedValue = TableNames
       /\ \A t \in TableNames :
            /\ DOMAIN MergedValue[t] = {RowKey(database[1][t][j]) : j \in 1..Len(database[1][t])}
            /\ \A k \in DOMAIN MergedValue[t] :
                 MergedValue[t][k] = DatasetToHashMap(database[1])[t][k]

\* Staging datasets without rows have been applied to production data that
\* holds a feature and synonyms
C12_Witness ==
    /\ pc = "merge"
    /\ Len(staging_hashes) = MaxStaging
    /\ \A k \in 1..Len(AppliedDatasets) : NoRowsAtAll(AppliedDatasets[k])
    /\ database[1]["features"] # <<>>
    /\ Len(database[1]["synonyms"]) = 2

\* A turn of the loop in which _apply_staging returned
StagingApplied ==
    /\ pc = "merge"
    /\ pc' = "merge"
    /\ Len(staging_hashes') = Len(staging_hashes) + 1

\* C13: when _apply_staging returns, every table of the production hash holds
\* the keys of production and of staging; a key staging does not hold keeps
\* its production entry; in a non-synonym table a key staging holds has the
\* staging record, whole; in the synonyms table a key both hold has the
\* production rows followed by the staging rows, and a key only staging holds
\* has the staging rows.
C13_StagingIsTableAware ==
    [][StagingApplied =>
        LET before == Deref(production_data_as_hash, heap)
            after == Deref(production_data_as_hash', heap')
            staged == Deref(staging_hashes'[Len(staging_hashes')], heap')
        IN  /\ DOMAIN after = DOMAIN before
            /\ \A t \in DOMAIN before :
                 /\ DOMAIN after[t] = DOMAIN before[t] \cup DOMAIN staged[t]
                 /\ \A k \in DOMAIN after[t] :
                      after[t][k] =
                        IF k \notin DOMAIN staged[t] THEN before[t][k]
                        ELSE IF t = "synonyms" /\ k \in DOMAIN before[t]
                        THEN before[t][k] \o staged[t][k]
                        ELSE staged[t][k]]_vars

\* A staging dataset has replaced the production feature of its key, has left
\* the production names alone and has added its synonym after the two of
\* production
C13_Witness ==
    /\ pc = "merge"
    /\ Len(staging_hashes) = 1
    /\ database[2] = StagedRows
    /\ Len(database[1]["features"]) = 1
    /\ MergedValue["features"]["1_0"] = FeaturesRow(1, PyInt(7), 2, 0)
    /\ MergedValue["names"]["1_0"] = database[1]["names"][1]
    /\ Len(database[1]["synonyms"]) = 2
    /\ MergedValue["synonyms"]["3_0"] = database[1]["synonyms"] \o database[2]["synonyms"]

\* The loop of _generate_output_iterable has ended
MergeDone == pc = "merge" /\ Len(staging_hashes) = Len(database) - 1

\* The rows of a table that carry the compound key, in the order of the table
RowsWithKey(table_values, key) ==
    SelectSeq(table_values, LAMBDA record : RowKey(record) = key)

RECURSIVE SynonymsUpTo(_, _)
\* The synonyms of a key in production and in the staging datasets up to the
\* j-th dataset of the database, in the order of the list
SynonymsUpTo(key, j) ==
    IF j = 0 THEN <<>>
    ELSE SynonymsUpTo(key, j - 1) \o RowsWithKey(database[j]["synonyms"], key)

\* C14: when every staging dataset has been applied, a compound key of a
\* non-synonym table has the record of the dataset that comes last in the
\* list among those that hold the key (production counting as the first), and
\* a compound key of the synonyms table has production's rows followed by the
\* rows of the staging datasets in the order of the list.
C14_LastStagingPrefixWins ==
    MergeDone =>
        \A t \in TableNames :
            LET holders(k) == {j \in 1..Len(database) :
                                 RowsWithKey(database[j][t], k) # <<>>}
                last(k) == RowsWithKey(database[SetMax(holders(k))][t], k)
            IN  /\ DOMAIN MergedValue[t] =
                     UNION {{RowKey(database[j][t][n]) : n \in 1..Len(database[j][t])} :
                              j \in 1..Len(database)}
                /\ \A k \in DOMAIN MergedValue[t] :
                     MergedValue[t][k] =
                       IF t = "synonyms" THEN SynonymsUpTo(k, Len(database))
                       ELSE last(k)[Len(last(k))]

\* Two staging datasets with different features of one key and with synonyms
\* of one key have been applied to production data that holds both keys
C14_Witness ==
    /\ MergeDone
    /\ Len(database) = 3
    /\ Len(database[1]["features"]) = 1
    /\ Len(database[1]["synonyms"]) = 2
    /\ database[2]["features"] = <<FeaturesRow(1, PyInt(7), 2, 0)>>
    /\ Len(database[3]["features"]) = 2
    /\ MergedValue["features"]["1_0"] = database[3]["features"][1]
    /\ MergedValue["synonyms"]["3_0"] =
         database[1]["synonyms"] \o database[2]["synonyms"] \o <<database[3]["synonyms"][1]>>

\* A turn of the loop whose staging hash has no entry for a table of the
\* production hash
StagingLacksTable ==
    /\ pc = "merge"
    /\ Len(staging_hashes') = Len(staging_hashes) + 1
    /\ DOMAIN production_data_as_hash \ DOMAIN staging_hashes'[Len(staging_hashes')] # {}

\* C15 as stated: a staging hash that lacks a table of the production hash
\* does not make _apply_staging raise, and the production table it lacks is
\* left as it was.
C15_MissingTableIsNoError ==
    [][StagingLacksTable =>
        LET before == Deref(production_data_as_hash, heap)
            after == Deref(production_data_as_hash', heap')
        IN  /\ pc' = "merge"
            /\ \A t \in DOMAIN before \ DOMAIN staging_hashes'[Len(staging_hashes')] :
                 after[t] = before[t]]_vars

\* C15, amended: a staging hash that lacks a table of the production hash
\* makes _apply_staging raise KeyError; the production table it lacks is left
\* as it was, and every other table is either as it was or merged with the
\* staging table, according to whether the loop reached it before the raise.
C15_MissingTableRaisesKeyError ==
    [][StagingLacksTable =>
        LET before == Deref(production_data_as_hash, heap)
            after == Deref(production_data_as_hash', heap')
            staged == Deref(staging_hashes'[Len(staging_hashes')], heap')
        IN  /\ pc' = "raised"
            /\ raised' = "KeyError"
            /\ DOMAIN after = DOMAIN before
            /\ \A t \in DOMAIN before \ DOMAIN staged : after[t] = before[t]
            /\ \A t \in DOMAIN before \cap DOMAIN staged :
                 \/ after[t] = before[t]
                 \/ /\ DOMAIN after[t] = DOMAIN before[t] \cup DOMAIN staged[t]
                    /\ \A k \in DOMAIN after[t] :
                         after[t][k] =
                           IF k \notin DOMAIN staged[t] THEN before[t][k]
                           ELSE IF t = "synonyms" /\ k \in DOMAIN before[t]
                           THEN before[t][k] \o staged[t][k]
                           ELSE staged[t][k]]_vars

\* A staging dataset without a names table has raised KeyError after its
\* feature replaced the production feature, with the production names intact
C15_Witness ==
    /\ pc = "raised"
    /\ raised = "KeyError"
    /\ Len(staging_hashes) = 1
    /\ "names" \notin DOMAIN staging_hashes[1]
    /\ Len(database[1]["features"]) = 1
    /\ MergedValue["features"]["1_0"] = database[2]["features"][1]
    /\ MergedValue["names"] = DatasetToHashMap(database[1])["names"]

\* C16: every staging hash that has been passed to _apply_staging is, with
\* the synonym lists it refers to, what dataset_to_hash_map made of its
\* dataset, after the call it was passed to and after every later call.
C16_StagingHashNotMutated ==
    \A j \in 1..Len(staging_hashes) :
        Deref(staging_hashes[j], heap) = DatasetToHashMap(AppliedDatasets[j])

\* The synonym list of a first staging dataset has become the production
\* entry of its key, and a second staging dataset has added its synonym to
\* that entry
C16_Witness ==
    /\ pc = "merge"
    /\ Len(staging_hashes) = 2
    /\ database[1]["synonyms"] = <<>>
    /\ "3_0" \in DOMAIN staging_hashes[1]["synonyms"]
    /\ "3_0" \in DOMAIN staging_hashes[2]["synonyms"]
    /\ MergedValue["synonyms"]["3_0"] =
         Deref(staging_hashes[1], heap)["synonyms"]["3_0"] \o
         Deref(staging_hashes[2], heap)["synonyms"]["3_0"]

\* A turn of the loop that applies the staging dataset the turn before it
\* applied
AppliedAgain ==
    /\ StagingApplied
    /\ Len(staging_hashes) >= 1
    /\ database[Len(staging_hashes) + 2] = database[Len(staging_hashes) + 1]

\* C17: applying a staging dataset a second time leaves every non-synonym
\* table as the first application left it, and gives every compound key of
\* the staging synonyms table the list the first application left, followed
\* by the staging rows once more; the other synonym keys keep their lists.
C17_RepeatedApplyNotDeduplicated ==
    [][AppliedAgain =>
        LET once == Deref(production_data_as_hash, heap)
            twice == Deref(production_data_as_hash', heap')
            staged == DatasetToHashMap(database[Len(staging_hashes) + 2])
        IN  /\ \A t \in TableNames \ {"synonyms"} : twice[t] = once[t]
            /\ DOMAIN twice["synonyms"] = DOMAIN once["synonyms"]
            /\ \A k \in DOMAIN twice["synonyms"] :
                 twice["synonyms"][k] =
                   IF k \in DOMAIN staged["synonyms"]
                   THEN once["synonyms"][k] \o staged["synonyms"][k]
                   ELSE once["synonyms"][k]]_vars

\* A staging dataset with features and with synonyms of two keys has been
\* applied twice to production data that holds a feature and two synonyms
C17_Witness ==
    /\ pc = "merge"
    /\ Len(staging_hashes) = 2
    /\ database[2] = database[3]
    /\ Len(database[2]["features"]) = 2
    /\ Len(database[1]["features"]) = 1
    /\ MergedValue["features"]["1_0"] = database[2]["features"][1]
    /\ MergedValue["synonyms"]["3_0"] =
         database[1]["synonyms"] \o <<database[2]["synonyms"][1], database[2]["synonyms"][1]>>
    /\ Len(database[1]["synonyms"]) = 2
    /\ MergedValue["synonyms"]["4_0"] =
         <<database[2]["synonyms"][2], database[2]["synonyms"][2]>>

-----------------------------------------------------------------------------
(* Properties of the CSV assembly *)

\* C18: the parent_id of a record ReaderLocalCSVs yields is the integer of
\* the ParentID of a named row of its key when that text is an integer, and
\* None when it is any other text or the empty string; and the assembly
\* raises ValueError only for an ID or a MapCode that is no integer, never
\* for a ParentID.
C18_ParentIdIntOrNone ==
    /\ (DataRead /\ data_type = "csv") =>
         \A a \in 1..Len(test_data) :
            LET class == test_data[a].properties.class
                named == in_dir[CHOOSE c \in ClassNames : PyInt(ClassId(c)) = class].named
            IN  \E j \in RowsDenoting(class, CompPrimaryKey(test_data[a])) :
                   test_data[a].properties.parent_id =
                     IF named[j].ParentID \in DOMAIN IntLiterals
                     THEN PyInt(IntLiterals[named[j].ParentID])
                     ELSE PyNone
    /\ (data_type = "csv" /\ raised = "ValueError") =>
         \E c \in ClassNames : \E j \in 1..Len(in_dir[c].named) :
            \/ in_dir[c].named[j].ID \notin DOMAIN IntLiterals
            \/ in_dir[c].named[j].MapCode \notin DOMAIN IntLiterals

\* A fault of the CSV files other than a recurring key: an ID or MapCode that
\* is no integer, or a local or synonym row whose key no named row has
OtherCsvFault ==
    \E c \in ClassNames :
        LET named == in_dir[c].named
            keys == {named[j].ID \o "_" \o named[j].MapCode : j \in 1..Len(named)}
        IN  \/ \E j \in 1..Len(named) :
                  \/ named[j].ID \notin DOMAIN IntLiterals
                  \/ named[j].MapCode \notin DOMAIN IntLiterals
            \/ \E j \in 1..Len(in_dir[c].local) :
                  in_dir[c].local[j].ParentID \o "_" \o in_dir[c].local[j].MapCode \notin keys
            \/ \E j \in 1..Len(in_dir[c].synonyms) :
                  in_dir[c].synonyms[j].ParentID \o "_" \o in_dir[c].synonyms[j].MapCode
                      \notin keys

\* The tables validate_keys is called for
ValidatedTables == TableNames \ {"synonyms"}

\* A row of a validated table has None or '' in one of its first two columns
UnpopulatedKeyColumn ==
    \E k \in 1..Len(database) : \E t \in ValidatedTables :
        \E j \in 1..Len(database[k][t]) : \E c \in 1..2 :
            FirstTwoColumns(t, database[k][t][j])[c] \in {PyNone, PyStr("")}

\* Two rows of a validated table agree in their first two columns: id and
\* parent_id of features, id and map_code of points and polygons
RecurringKeyColumns ==
    \E k \in 1..Len(database) : \E t \in ValidatedTables :
        \E a, b \in 1..Len(database[k][t]) :
            /\ a # b
            /\ FirstTwoColumns(t, database[k][t][a]) = FirstTwoColumns(t, database[k][t][b])

\* The construction of the id index has ended, one way or the other
IndexBuilt == pc = "ready" \/ (pc = "setUpFailed" /\ raised = "AssertionError")

\* C19 as stated: a recurring compound key makes neither the CSV assembly nor
\* query_datasets/validate_keys raise, and the construction of the id index
\* does not fail: an exception of a reader has another cause, and setUp and
\* __init__ end with the index built.
C19_RecurringKeyIsNonFatal ==
    /\ (data_type = "csv" /\ raised \in {"ValueError", "KeyError"}) => OtherCsvFault
    /\ (data_type = "postgres" /\ raised = "ValueError") => UnpopulatedKeyColumn
    /\ raised # "AssertionError"

\* C19, amended: a recurring compound key does not make the CSV assembly
\* raise, and GeoCodingTest.__init__ builds the id index of every key
\* whatever recurs; validate_keys raises ValueError exactly when a validated
\* table has a row with an unpopulated key column or two rows that agree in
\* their first two columns; GeoTestBaseClass.setUp fails exactly when a
\* compound key recurs among the records the reader yielded.
C19_RecurringKeyFatalInPostgresAndSetUp ==
    /\ (data_type = "csv" /\ raised \in {"ValueError", "KeyError"}) => OtherCsvFault
    /\ (data_type = "postgres" /\ pc # "get_input_data") =>
         (raised = "ValueError" <=> (UnpopulatedKeyColumn \/ RecurringKeyColumns))
    /\ (IndexBuilt /\ variant = "interactive") =>
         /\ pc = "ready"
         /\ DOMAIN id_indexed_record = KeysOf(test_data)
    /\ (IndexBuilt /\ variant = "nose") =>
         (raised = "AssertionError" <=>
            \E a, b \in 1..Len(test_data) :
               a # b /\ CompPrimaryKey(test_data[a]) = CompPrimaryKey(test_data[b]))

\* The CSV reader has yielded two records of one compound key, and setUp has
\* failed on the second
C19_Witness ==
    /\ variant = "nose"
    /\ data_type = "csv"
    /\ pc = "setUpFailed"
    /\ raised = "AssertionError"
    /\ Len(test_data) = 2
    /\ CompPrimaryKey(test_data[1]) = CompPrimaryKey(test_data[2])
    /\ DOMAIN id_indexed_record = {CompPrimaryKey(test_data[1])}

\* The record the CSV reader yields for a named row of a class when the
\* fields of `from`, a row of the same compound key, are used
YieldedFor(c, row, from) ==
    \E a \in 1..Len(test_data) :
        /\ test_data[a].properties.class = PyInt(ClassId(c))
        /\ test_data[a].properties.id = IntLiterals[row.ID]
        /\ test_data[a].properties.map_code = IntLiterals[row.MapCode]
        /\ test_data[a].properties.parent_id = ParentIdOf(from.ParentID)

\* The places of the named rows of a class that carry the compound key of the
\* j-th row
Carrying(c, j) ==
    {k \in 1..Len(in_dir[c].named) :
        in_dir[c].named[k].ID \o "_" \o in_dir[c].named[k].MapCode =
        in_dir[c].named[j].ID \o "_" \o in_dir[c].named[j].MapCode}

\* The entry of the id index under every key is the first record yielded
\* with that key
IndexKeepsFirstSeen ==
    \A key \in DOMAIN id_indexed_record :
        id_indexed_record[key] =
            test_data[SetMin({a \in 1..Len(test_data) :
                                CompPrimaryKey(test_data[a]) = key})]

-----------------------------------------------------------------------------
(* Properties of the interactive validity check *)

\* C27: when the interactive validity check has finished, every feature whose
\* geometries hold an invalid polygon has an entry of its own in the report:
\* an entry whose value is the feature.
C27_InteractiveInvalidHaveOwnEntry ==
    (pc = "done" /\ check = "test_invalidShape" /\ variant = "interactive") =>
        \A j \in 1..Len(test_data) :
            (/\ test_data[j].has_geometry
             /\ PolyGeom(test_data[j]) # NoShape
             /\ ~IsValid(PolyGeom(test_data[j])))
            => \E e \in 1..Len(features_invalid_shape) :
                  features_invalid_shape[e].value = test_data[j]

-----------------------------------------------------------------------------
(* Properties of the key validation *)

\* Two rows of a validated table have the same id and map_code
RecurringIdMapCode ==
    \E k \in 1..Len(database) : \E t \in ValidatedTables :
        \E a, b \in 1..Len(database[k][t]) :
            /\ a # b
            /\ database[k][t][a].id = database[k][t][b].id
            /\ database[k][t][a].map_code = database[k][t][b].map_code

\* C26: query_datasets is left by the ValueError of validate_keys exactly when
\* two rows of a non-synonym table share id and map_code (the id and the
\* map_code of a row are always populated here): rows with distinct
\* (id, map_code) never raise, whatever their other columns hold.
C26_ValidatedKeyIsIdMapCode ==
    (data_type = "postgres" /\ pc # "get_input_data") =>
        (raised = "ValueError" <=> RecurringIdMapCode)

-----------------------------------------------------------------------------
(* The checks run one after the other on one instance *)

\* A further test method is called on the instance whose check has ended
CheckAgain ==
    /\ pc \in {"done", "raised"}
    /\ runs + 1 \in RunNumbers
    /\ runs' = runs + 1
    /\ pc' = "ready"
    /\ check' = "none"
    /\ raised' = "none"
    /\ UNCHANGED <<ReaderVars, variant, test_data, id_indexed_record, Locals,
                   prev_overlapping>>

\* {0,1} and {1,2} overlap; a predicate may raise on the invalid {0,1}
FramePolygons ==
    {Polygon({0, 1}, TRUE), Polygon({0, 1}, FALSE), Polygon({1, 2}, TRUE)}

\* States whose parent is the feature of id 1, with a polygon and a point
FramePool ==
    {Feature(id, BaseLayer[2], PyInt(BaseLayer[1]), PyInt(1), TRUE,
             <<g, Point(SetMin(g.cells))>>) :
        id \in IdValues, g \in FramePolygons}

InitFrame == InitOn(FramePool, Variants, {"csv"})

NextFrame ==
    \/ SetUp
    \/ \E c \in NoseChecks \cup InteractiveChecks : StartCheck(c)
    \/ InvalidShapeStep
    \/ InvalidShapeFinish
    \/ PointInPolygonStep
    \/ PointInPolygonFinish
    \/ FallsWithinParentStep
    \/ FallsWithinParentFinish
    \/ OverlapBuildIndex
    \/ OverlapQuery
    \/ OverlapPair
    \/ OverlapNextData
    \/ OverlapFinish
    \/ CheckAgain

SpecFrame == InitFrame /\ [][NextFrame]_vars

\* setUp or __init__ has returned, and the instance has not been given up
InstanceInUse == pc \in {"ready", "running", "query", "pairs", "done", "raised"}

\* C28: from the call of a test method to the call of the next one on the
\* same instance, no step changes test_data or id_indexed_record, the
\* geometries lists of the records included.
C28_ChecksLeaveFeaturesAlone ==
    [][InstanceInUse =>
         (test_data' = test_data /\ id_indexed_record' = id_indexed_record)]_vars

\* The interactive overlap check has met an overlapping pair, has ended, and
\* a second check has ended on the same instance
C28_Witness ==
    /\ variant = "interactive"
    /\ runs = 2
    /\ pc = "done"
    /\ check = OverlapCheck
    /\ \E e \in 1..Len(ids_with_topology_error) :
          ids_with_topology_error[e].error_string = "KeyError"
    /\ Len(test_data) = 2

-----------------------------------------------------------------------------
(* The CSV assembly on directories with geometry rows, synonym rows and
   missing files *)

\* The named files: empty, one state, two states, a country and a state
CsvNamedFiles ==
    {<<>>,
     <<InClass("State", NamedRow("1", "0", "1"))>>,
     <<InClass("State", NamedRow("1", "0", "1")), InClass("State", NamedRow("2", "0", "1"))>>,
     <<InClass("Country", NamedRow("1", "0", "")), InClass("State", NamedRow("2", "0", "1"))>>}

\* A local row that has no Geometry column
LocalRowWithoutGeometry(parent_id, map_code, longitude) ==
    [ParentID |-> parent_id, MapCode |-> map_code, Longitude |-> longitude]

\* Local rows of the states 1_0 and 2_0: with a polygon, with Geometry 'None',
\* without the Geometry column
CsvLocalEntries ==
    {InClass("State", LocalRow("1", "0", Polygon({0, 1}, TRUE), 0)),
     InClass("State", LocalRow("1", "0", NoShape, 1)),
     InClass("State", LocalRowWithoutGeometry("1", "0", 2)),
     InClass("State", LocalRow("2", "0", Polygon({1, 2}, TRUE), 1))}

\* Synonym rows of the states 1_0 and 2_0: two synonyms and two display names
\* of 1_0, whose locales differ in case alone, and a synonym of 2_0
CsvSynonymEntries ==
    {InClass("State", NameRow("1", "0", "0", "en_US", "alias")),
     InClass("State", NameRow("1", "0", "0", "en_US", "byname")),
     InClass("State", NameRow("1", "0", "1", "en_US", "One")),
     InClass("State", NameRow("1", "0", "1", "EN_US", "Uno")),
     InClass("State", NameRow("2", "0", "0", "de_DE", "zwei"))}

\* The local and the synonyms file of a directory: up to MaxRows rows in one
\* of them, up to one row in the other
CsvLocalAndSynonyms ==
    (SeqsUpTo(CsvLocalEntries, MaxRows) \X SeqsUpTo(CsvSynonymEntries, 1))
    \cup (SeqsUpTo(CsvLocalEntries, 1) \X SeqsUpTo(CsvSynonymEntries, MaxRows))

\* Directories that lack a named, a local or a synonyms file
IncompleteFileSets ==
    {RequiredFiles \ {f} :
        f \in {"State.csv", "LocalDataAreaCode.csv", "CountrySynonyms.csv"}}

InitCsv ==
    /\ variant = "nose"
    /\ data_type = "csv"
    /\ \/ /\ files_in_dir = RequiredFiles
          /\ \E n \in CsvNamedFiles, ls \in CsvLocalAndSynonyms :
                in_dir = Directory(n, ls[1], ls[2])
       \/ /\ files_in_dir \in IncompleteFileSets
          /\ \E n \in CsvNamedFiles, l \in SeqsUpTo(CsvLocalEntries, 1) :
                in_dir = Directory(n, l, <<>>)
    /\ opened = {}
    /\ staging_prefixes = <<>>
    /\ pg_tables = <<>>
    /\ database = <<>>
    /\ records_from_files = <<>>
    /\ cursor = <<>>
    /\ production_data_as_hash = <<>>
    /\ staging_hashes = <<>>
    /\ heap = <<>>
    /\ test_data = <<>>
    /\ id_indexed_record = <<>>
    /\ pc = "get_input_data"
    /\ check = "none"
    /\ i = 1
    /\ polygon_shapes = <<>>
    /\ candidates = {}
    /\ features_invalid_shape = <<>>
    /\ features_point_outside_polygon = <<>>
    /\ features_with_overlapping_polygons = <<>>
    /\ features_polygon_falls_within_parent = <<>>
    /\ ids_with_topology_error = <<>>
    /\ raised = "none"
    /\ runs = 1
    /\ prev_overlapping = NoPrevious

NextCsv ==
    \/ CreateCursor
    \/ ClassGenerator

SpecCsv == InitCsv /\ [][NextCsv]_vars

\* The rows of a file of a class that carry the compound key
RowsCarrying(rows, key) ==
    SelectSeq(rows, LAMBDA row : row.ParentID \o "_" \o row.MapCode = key)

\* The features of the class and key among the records yielded
YieldedOf(c, id, map_code) ==
    {a \in 1..Len(test_data) :
        /\ test_data[a].properties.class = PyInt(ClassId(c))
        /\ test_data[a].properties.id = IntLiterals[id]
        /\ test_data[a].properties.map_code = IntLiterals[map_code]}

\* C21: a feature the CSV reader yields has a 'geometry' exactly when a local
\* row of its class carries its compound key; the geometries are then those
\* of the last such row: its polygon, when the row has a Geometry field that
\* is not 'None', followed by its one point.
C21_GeometryFromLastLocalRow ==
    pc = "setUp" =>
        \A c \in ClassNames : \A j \in 1..Len(in_dir[c].named) :
            LET named == in_dir[c].named[j]
                own == RowsCarrying(in_dir[c].local, named.ID \o "_" \o named.MapCode)
                last == own[Len(own)]
            IN  \A a \in YieldedOf(c, named.ID, named.MapCode) :
                   /\ test_data[a].has_geometry <=> own # <<>>
                   /\ own # <<>> =>
                        /\ test_data[a].geometries =
                             (IF "Geometry" \in DOMAIN last /\ last.Geometry.type # "None"
                              THEN <<last.Geometry>> ELSE <<>>)
                             \o <<Point(last.Longitude)>>
                        /\ Cardinality({g \in 1..Len(test_data[a].geometries) :
                               IsPointType(test_data[a].geometries[g])}) = 1
                        /\ Cardinality({g \in 1..Len(test_data[a].geometries) :
                               IsPolygonType(test_data[a].geometries[g])}) <= 1

\* A state with two local rows has been yielded: the first row has a polygon,
\* the last has the Geometry 'None', and the feature carries the point of the
\* last row alone
C21_Witness ==
    /\ pc = "setUp"
    /\ Len(in_dir["State"].local) = 2
    /\ in_dir["State"].local[1] = LocalRow("1", "0", Polygon({0, 1}, TRUE), 0)
    /\ in_dir["State"].local[2] = LocalRow("1", "0", NoShape, 1)
    /\ Len(test_data) = 1
    /\ test_data[1].has_geometry
    /\ test_data[1].geometries = <<Point(1)>>

\* The synonym rows of a class's file that carry the key and are display
\* names (IsDisplayName '1') or are not
NameRowsOf(c, key, is_display_name) ==
    SelectSeq(RowsCarrying(in_dir[c].synonyms, key),
              LAMBDA row : (row.IsDisplayName = "1") = is_display_name)

\* C22: a feature the CSV reader yields has as 'synonyms' the Names of the
\* rows of its key in the class's synonyms file that are no display names, in
\* file order (None when there is none); a display-name row adds nothing to
\* 'synonyms' and sets the property of its lower-cased Locale to its Name.
C22_SynonymsInFileOrder ==
    pc = "setUp" =>
        \A c \in ClassNames : \A j \in 1..Len(in_dir[c].named) :
            LET named == in_dir[c].named[j]
                key == named.ID \o "_" \o named.MapCode
                others == NameRowsOf(c, key, FALSE)
                display == NameRowsOf(c, key, TRUE)
            IN  \A a \in YieldedOf(c, named.ID, named.MapCode) :
                   /\ test_data[a].properties.synonyms =
                        (IF others = <<>> THEN PyNone
                         ELSE PyList([k \in 1..Len(others) |-> others[k].Name]))
                   /\ \A k \in 1..Len(display) :
                        (\A later \in (k + 1)..Len(display) :
                            LowerCase[display[later].Locale] # LowerCase[display[k].Locale])
                        => <<LowerCase[display[k].Locale], display[k].Name>>
                               \in test_data[a].properties.names
                   /\ \A name \in test_data[a].properties.names :
                        \E k \in 1..Len(display) :
                            name = <<LowerCase[display[k].Locale], display[k].Name>>

\* A state with a display name and, after it, a synonym has been yielded with
\* its geometry
C22_Witness ==
    /\ pc = "setUp"
    /\ in_dir["State"].synonyms =
         <<NameRow("1", "0", "1", "EN_US", "Uno"), NameRow("1", "0", "0", "en_US", "alias")>>
    /\ Len(in_dir["State"].local) = 1
    /\ Len(test_data) = 1
    /\ test_data[1].has_geometry
    /\ test_data[1].properties.synonyms = PyList(<<"alias">>)
    /\ test_data[1].properties.names = {<<"en_us", "Uno">>}

\* C23: when a file of file_structure is missing from the directory, building
\* the reader raises the Exception of _validate_files; no file has been
\* opened, no row read and no feature yielded.
C23_MissingFileRaisesFirst ==
    ~(RequiredFiles \subseteq files_in_dir) =>
        /\ opened = {}
        /\ records_from_files = <<>>
        /\ cursor = <<>>
        /\ test_data = <<>>
        /\ pc # "setUp"
        /\ pc # "get_input_data" => (pc = "setUpFailed" /\ raised = "Exception")

\* The reader of a directory without State.csv has raised
C23_Witness ==
    /\ "State.csv" \notin files_in_dir
    /\ in_dir["State"].named # <<>>
    /\ pc = "setUpFailed"
    /\ raised = "Exception"

\* A local or synonym row of the class has a compound key that no named row of
\* the class has
HasOrphanRow(c) ==
    LET keys == {in_dir[c].named[j].ID \o "_" \o in_dir[c].named[j].MapCode :
                    j \in 1..Len(in_dir[c].named)}
    IN  \E row \in Range(in_dir[c].local) \cup Range(in_dir[c].synonyms) :
            row.ParentID \o "_" \o row.MapCode \notin keys

\* Every named row of the class has its feature among the records yielded
ClassYielded(c) ==
    \A j \in 1..Len(in_dir[c].named) :
        YieldedOf(c, in_dir[c].named[j].ID, in_dir[c].named[j].MapCode) # {}

\* Every feature yielded is the feature of a named row of its class
YieldedAreNamed ==
    \A a \in 1..Len(test_data) :
        \E c \in ClassNames : \E j \in 1..Len(in_dir[c].named) :
            a \in YieldedOf(c, in_dir[c].named[j].ID, in_dir[c].named[j].MapCode)

\* C29 as stated: an orphan local or synonym row creates no feature and does
\* not abort the iteration, which yields the features of every class.
C29_OrphanRowsAreSkipped ==
    RequiredFiles \subseteq files_in_dir =>
        /\ YieldedAreNamed
        /\ pc # "setUpFailed"
        /\ pc = "setUp" => \A c \in ClassNames : ClassYielded(c)

\* C29, amended: an orphan local or synonym row creates no feature and aborts
\* the iteration with KeyError when its class is reached: the features of the
\* classes before it have been yielded, none of that class or a later one.
C29_OrphanRowAbortsIteration ==
    RequiredFiles \subseteq files_in_dir =>
        /\ YieldedAreNamed
        /\ pc = "setUp" => /\ \A c \in ClassNames : ~HasOrphanRow(c)
                           /\ \A c \in ClassNames : ClassYielded(c)
        /\ pc = "setUpFailed" =>
             /\ raised = "KeyError"
             /\ cursor # <<>>
             /\ HasOrphanRow(Head(cursor))
             /\ \A c \in ClassNames \ Range(cursor) : ClassYielded(c) /\ ~HasOrphanRow(c)
             /\ \A a \in 1..Len(test_data) : \A c \in Range(cursor) :
                    test_data[a].properties.class # PyInt(ClassId(c))

\* The country has been yielded, and the iteration has stopped at the states,
\* where a local row has the key of no state
C29_Witness ==
    /\ pc = "setUpFailed"
    /\ raised = "KeyError"
    /\ Len(test_data) = 1
    /\ test_data[1].properties.class = PyInt(ClassId("Country"))
    /\ in_dir["State"].named = <<NamedRow("2", "0", "1")>>
    /\ in_dir["State"].local = <<LocalRow("1", "0", NoShape, 1)>>
    /\ in_dir["State"].synonyms = <<>>

-----------------------------------------------------------------------------
(* A run on a directory with a row that cannot be read *)

\* A row of a named file without the ID field, a row of a local file without
\* the MapCode field
NamedRowWithoutId(map_code, parent_id) == [MapCode |-> map_code, ParentID |-> parent_id]

LocalRowWithoutMapCode(parent_id, geom, longitude) ==
    [ParentID |-> parent_id, Geometry |-> geom, Longitude |-> longitude]

\* The rows of State.csv: two states and a row without ID
RunNamedEntries ==
    {InClass("State", NamedRow("1", "0", "1")),
     InClass("State", NamedRow("2", "0", "1")),
     InClass("State", NamedRowWithoutId("0", "1"))}

\* The rows of LocalDataState.csv: an invalid polygon for either state and a
\* row without MapCode
RunLocalEntries ==
    {InClass("State", LocalRow("1", "0", Polygon({0, 1}, FALSE), 0)),
     InClass("State", LocalRow("2", "0", Polygon({1, 2}, FALSE), 1)),
     InClass("State", LocalRowWithoutMapCode("1", Polygon({0, 1}, TRUE), 0))}

InitCsvRun ==
    /\ variant \in Variants
    /\ data_type = "csv"
    /\ files_in_dir = RequiredFiles
    /\ \E n \in SeqsUpTo(RunNamedEntries, MaxRows), l \in SeqsUpTo(RunLocalEntries, MaxRows) :
          in_dir = Directory(n, l, <<>>)
    /\ opened = {}
    /\ staging_prefixes = <<>>
    /\ pg_tables = <<>>
    /\ database = <<>>
    /\ records_from_files = <<>>
    /\ cursor = <<>>
    /\ production_data_as_hash = <<>>
    /\ staging_hashes = <<>>
    /\ heap = <<>>
    /\ test_data = <<>>
    /\ id_indexed_record = <<>>
    /\ pc = "get_input_data"
    /\ check = "none"
    /\ i = 1
    /\ polygon_shapes = <<>>
    /\ candidates = {}
    /\ features_invalid_shape = <<>>
    /\ features_point_outside_polygon = <<>>
    /\ features_with_overlapping_polygons = <<>>
    /\ features_polygon_falls_within_parent = <<>>
    /\ ids_with_topology_error = <<>>
    /\ raised = "none"
    /\ runs = 1
    /\ prev_overlapping = NoPrevious

NextCsvRun ==
    \/ CreateCursor
    \/ ClassGenerator
    \/ SetUp
    \/ StartCheck("test_invalidShape")
    \/ InvalidShapeStep
    \/ InvalidShapeFinish

SpecCsvRun == InitCsvRun /\ [][NextCsvRun]_vars

\* A row of a file of the directory lacks a field of its compound key
MalformedSource ==
    \E c \in ClassNames :
        \/ \E row \in Range(in_dir[c].named) : {"ID", "MapCode"} \ DOMAIN row # {}
        \/ \E row \in Range(in_dir[c].local) \cup Range(in_dir[c].synonyms) :
              {"ParentID", "MapCode"} \ DOMAIN row # {}

\* C24: on a directory with a row whose compound key cannot be derived the
\* run fails: the reader keeps no rows and yields no feature, setUp does not
\* return and no check runs.
C24_MalformedRowAbortsRun ==
    MalformedSource =>
        /\ records_from_files = <<>>
        /\ test_data = <<>>
        /\ pc \in {"get_input_data", "setUpFailed"}
        /\ features_invalid_shape = <<>>

-----------------------------------------------------------------------------
(* Runs on empty and on small inputs *)

\* The five tables without rows
EmptyDataset == Dataset(<<>>, <<>>, <<>>, <<>>, <<>>)

\* Two states of one layer whose polygons overlap
OverlappingDataset ==
    Dataset(<<FeaturesRow(1, PyInt(9), 1, 0), FeaturesRow(2, PyInt(9), 1, 0)>>,
            <<>>, <<>>,
            <<GeomRow(1, 0, Point(0))>>,
            <<GeomRow(1, 0, Polygon({0, 1}, FALSE)), GeomRow(2, 0, Polygon({1, 2}, TRUE))>>)

\* Databases without rows, with and without a staging prefix, and with rows
SmallDatabases ==
    {<<EmptyDataset>>, <<EmptyDataset, EmptyDataset>>, <<OverlappingDataset>>,
     <<OverlappingDataset, EmptyDataset>>}

\* Directories whose files have no rows, and with two states whose polygons
\* overlap
SmallDirectories ==
    {Directory(<<>>, <<>>, <<>>),
     Directory(<<InClass("State", NamedRow("1", "0", "1")),
                 InClass("State", NamedRow("2", "0", "1"))>>,
               <<InClass("State", LocalRow("1", "0", Polygon({0, 1}, FALSE), 0)),
                 InClass("State", LocalRow("2", "0", Polygon({1, 2}, TRUE), 1))>>,
               <<>>)}

InitSmall ==
    /\ variant \in Variants
    /\ \/ /\ data_type = "csv"
          /\ in_dir \in SmallDirectories
          /\ files_in_dir = RequiredFiles
          /\ database = <<>>
       \/ /\ data_type = "postgres"
          /\ in_dir = <<>>
          /\ files_in_dir = {}
          /\ database \in SmallDatabases
    /\ opened = {}
    /\ staging_prefixes = <<>>
    /\ pg_tables = <<>>
    /\ records_from_files = <<>>
    /\ cursor = <<>>
    /\ production_data_as_hash = <<>>
    /\ staging_hashes = <<>>
    /\ heap = <<>>
    /\ test_data = <<>>
    /\ id_indexed_record = <<>>
    /\ pc = "get_input_data"
    /\ check = "none"
    /\ i = 1
    /\ polygon_shapes = <<>>
    /\ candidates = {}
    /\ features_invalid_shape = <<>>
    /\ features_point_outside_polygon = <<>>
    /\ features_with_overlapping_polygons = <<>>
    /\ features_polygon_falls_within_parent = <<>>
    /\ ids_with_topology_error = <<>>
    /\ raised = "none"
    /\ runs = 1
    /\ prev_overlapping = NoPrevious

NextSmall ==
    \/ CreateCursor
    \/ ClassGenerator
    \/ ReaderPostgresInit
    \/ SetUp
    \/ \E c \in {"test_invalidShape", "test_PointInPolygon", "test_PointInPolygonGeom",
                 "test_overlappingPolygons"} : StartCheck(c)
    \/ InvalidShapeStep
    \/ InvalidShapeFinish
    \/ PointInPolygonStep
    \/ PointInPolygonFinish
    \/ OverlapBuildIndex
    \/ OverlapQuery
    \/ OverlapPair
    \/ OverlapNextData
    \/ OverlapFinish

SpecSmall == InitSmall /\ [][NextSmall]_vars

\* The input has no rows: every file of the directory, or every table of the
\* production and of the staging datasets, is empty
ZeroFeatures ==
    IF data_type = "csv"
    THEN \A c \in ClassNames :
            in_dir[c].named = <<>> /\ in_dir[c].local = <<>> /\ in_dir[c].synonyms = <<>>
    ELSE \A k \in 1..Len(database) : \A t \in TableNames : database[k][t] = <<>>

\* C25: on an input without rows nothing raises: the reader yields no
\* feature, setUp returns, and test_invalidShape, test_PointInPolygon and
\* test_overlappingPolygons end with an empty report.
C25_EmptyInputIsStable ==
    ZeroFeatures =>
        /\ raised = "none"
        /\ pc \notin {"setUpFailed", "raised"}
        /\ test_data = <<>>
        /\ id_indexed_record = <<>>
        /\ features_invalid_shape = <<>>
        /\ features_point_outside_polygon = <<>>
        /\ features_with_overlapping_polygons = <<>>
        /\ ids_with_topology_error = <<>>

\* The interactive overlap check has returned on a database whose production
\* and staging tables are empty
C25_Witness ==
    /\ ZeroFeatures
    /\ data_type = "postgres"
    /\ Len(database) = 2
    /\ variant = "interactive"
    /\ check = "test_overlappingPolygons"
    /\ pc = "done"

-----------------------------------------------------------------------------
(* readers.py, ReaderPostgres.__init__: the staging prefixes *)

MaxChars == 4

\* The characters of the pg_staging_prefixes option
PrefixChars == {"a", "b", ",", " "}

RECURSIVE Text(_)
\* The string of a sequence of characters
Text(chars) == IF chars = <<>> THEN "" ELSE Head(chars) \o Text(Tail(chars))

RECURSIVE Split(_)
\* staging_prefixes.split(',')
Split(chars) ==
    LET commas == {j \in 1..Len(chars) : chars[j] = ","}
    IN  IF commas = {} THEN <<chars>>
        ELSE <<SubSeq(chars, 1, SetMin(commas) - 1)>>
             \o Split(SubSeq(chars, SetMin(commas) + 1, Len(chars)))

\* prefix.strip()
Strip(chars) ==
    LET inked == {j \in 1..Len(chars) : chars[j] # " "}
    IN  IF inked = {} THEN <<>> ELSE SubSeq(chars, SetMin(inked), SetMax(inked))

\* self.staging_prefixes: the stripped elements of the option, or the empty
\* list when the option is missing or empty
ParsedPrefixes(option) ==
    IF option.has_option /\ option.chars # <<>>
    THEN LET elements == Split(option.chars)
         IN  [k \in 1..Len(elements) |-> Text(Strip(elements[k]))]
    ELSE <<>>

\* generate_select_statements(staging_prefix): the tables the queries read,
\* `staging_<prefix>_<table>` for a prefix that is true, else `<table>`
TablesQueried(staging_prefix) ==
    IF staging_prefix # "" THEN "staging_" \o staging_prefix ELSE ""

\* The production tables: a feature with a name, a synonym and a polygon
ProductionTables ==
    Dataset(<<FeaturesRow(1, PyInt(9), 1, 0)>>,
            <<NamesRow(PyStr("eins"), PyStr("uno"), 1, 0)>>,
            <<SynonymsRow("one", 0, 1)>>, <<>>,
            <<GeomRow(1, 0, Polygon({0, 1}, TRUE))>>)

\* The tables of the database: production alone, or with the staging tables
\* of the prefix a, or of the prefixes a and b
PgTables ==
    {("" :> ProductionTables),
     ("" :> ProductionTables)
        @@ ("staging_a" :> Dataset(<<FeaturesRow(1, PyInt(7), 2, 0)>>, <<>>,
                                   <<SynonymsRow("ein", 0, 1)>>, <<>>, <<>>)),
     ("" :> ProductionTables)
        @@ ("staging_a" :> Dataset(<<FeaturesRow(1, PyInt(7), 2, 0)>>, <<>>,
                                   <<SynonymsRow("ein", 0, 1)>>, <<>>, <<>>))
        @@ ("staging_b" :> Dataset(<<>>, <<>>, <<>>, <<>>,
                                   <<GeomRow(1, 0, Polygon({2, 3}, TRUE))>>))}

\* ReaderPostgres.__init__ up to the loop of _generate_output_iterable: the
\* option is parsed, the production tables and the tables of every prefix are
\* queried and validated, and the production data is hashed.  A query of a
\* table that does not exist raises Exception("A Query Failed to Execute").
QueryDatasets ==
    /\ pc = "get_input_data"
    /\ data_type = "postgres"
    /\ database = <<>>
    /\ LET prefixes == ParsedPrefixes(staging_prefixes)
           tables == [k \in 1..Len(prefixes) |-> TablesQueried(prefixes[k])]
           absent == {k \in 1..Len(tables) : tables[k] \notin DOMAIN pg_tables}
           production_data == pg_tables[""]
       IN  /\ staging_prefixes' = [staging_prefixes EXCEPT !.list = prefixes]
           /\ IF QueryDatasetsRaises(production_data)
              THEN /\ raised' = "ValueError"
                   /\ pc' = "setUpFailed"
                   /\ UNCHANGED <<database, production_data_as_hash, heap>>
              ELSE IF absent # {}
              THEN /\ raised' = "Exception"
                   /\ pc' = "setUpFailed"
                   /\ UNCHANGED <<database, production_data_as_hash, heap>>
              ELSE IF \E k \in 1..Len(tables) : QueryDatasetsRaises(pg_tables[tables[k]])
              THEN /\ raised' = "ValueError"
                   /\ pc' = "setUpFailed"
                   /\ UNCHANGED <<database, production_data_as_hash, heap>>
              ELSE /\ database' = <<production_data>>
                                  \o [k \in 1..Len(tables) |-> pg_tables[tables[k]]]
                   /\ production_data_as_hash' = HashOnHeap(production_data, <<>>).hash
                   /\ heap' = HashOnHeap(production_data, <<>>).heap
                   /\ pc' = "merge"
                   /\ UNCHANGED raised
    /\ UNCHANGED <<variant, test_data, id_indexed_record, check, Locals, runs,
                   prev_overlapping, data_type, in_dir, records_from_files, cursor,
                   staging_hashes, files_in_dir, opened, pg_tables>>

InitPrefixes ==
    /\ variant \in {"nose"}
    /\ data_type = "postgres"
    /\ in_dir = <<>>
    /\ pg_tables \in PgTables
    /\ \E has_option \in BOOLEAN :
         \E chars \in (IF has_option THEN SeqsUpTo(PrefixChars, MaxChars) ELSE {<<>>}) :
            staging_prefixes = [has_option |-> has_option, chars |-> chars, list |-> <<>>]
    /\ database = <<>>
    /\ production_data_as_hash = <<>>
    /\ heap = <<>>
    /\ staging_hashes = <<>>
    /\ files_in_dir = {}
    /\ opened = {}
    /\ records_from_files = <<>>
    /\ cursor = <<>>
    /\ test_data = <<>>
    /\ id_indexed_record = <<>>
    /\ pc = "get_input_data"
    /\ check = "none"
    /\ i = 1
    /\ polygon_shapes = <<>>
    /\ candidates = {}
    /\ features_invalid_shape = <<>>
    /\ features_point_outside_polygon = <<>>
    /\ features_with_overlapping_polygons = <<>>
    /\ features_polygon_falls_within_parent = <<>>
    /\ ids_with_topology_error = <<>>
    /\ raised = "none"
    /\ runs = 1
    /\ prev_overlapping = NoPrevious

NextPrefixes ==
    \/ QueryDatasets
    \/ MergeStaging

SpecPrefixes == InitPrefixes /\ [][NextPrefixes]_vars

\* C30: the dataset queried for every element of the parsed prefixes is the
\* one of the tables staging_<prefix>_<table>, and when the merge is done the
\* synonyms of production are in the merged list of their key once each.
C30_PrefixesReadStagingTablesOnly ==
    pc = "merge" =>
        /\ \A k \in 1..Len(staging_prefixes.list) :
              /\ ("staging_" \o staging_prefixes.list[k]) \in DOMAIN pg_tables
              /\ database[k + 1] = pg_tables["staging_" \o staging_prefixes.list[k]]
        /\ MergeDone =>
              \A key \in DOMAIN MergedValue["synonyms"] :
                  SelectSeq(MergedValue["synonyms"][key],
                            LAMBDA row : row \in Range(pg_tables[""]["synonyms"]))
                      = RowsWithKey(pg_tables[""]["synonyms"], key)

=============================================================================
